---- MODULE Spec2Model ----
(***************************************************************************)
(* A model of nfc-offer: the command layer of NFCReader, tag               *)
(* identification, the NDEF codec and lock manager of NFDEFHandler, the    *)
(* record validation of NFTData and the command handlers of main.py.       *)
(*                                                                         *)
(* A function of the program that talks to the tag is an operator that     *)
(* returns the SET of its possible outcomes: every command frame may be    *)
(* answered with status 0x90 ("ok"), with another status ("sw") or by a    *)
(* transport exception ("exc").  An outcome is a record [r, c] (and v      *)
(* where a value is returned); r is the Python result written as a string  *)
(* ("True", "False", "None", a variant name, or the name of the exception  *)
(* that left the function) and c is the tag context after the call.        *)
(***************************************************************************)
EXTENDS Integers, Sequences, FiniteSets, TLC

(***************************************************************************)
(* Bytes, pages and tag memory.  Memory is kept sparse: a function from    *)
(* the pages whose contents are not all zero to their four bytes.          *)
(***************************************************************************)
PAGE_SIZE == 4

Zero4 == <<0, 0, 0, 0>>

RdMem(mem, p) == IF p \in DOMAIN mem THEN mem[p] ELSE Zero4

WrMem(mem, p, d) ==
  IF d = Zero4
    THEN [q \in (DOMAIN mem) \ {p} |-> mem[q]]
    ELSE [q \in (DOMAIN mem) \cup {p} |-> IF q = p THEN d ELSE mem[q]]

\* b'..'.ljust(4, b'\x00')
ljust4(s) == [i \in 1..PAGE_SIZE |-> IF i <= Len(s) THEN s[i] ELSE 0]

\* the concatenation of ss[lo..hi] (evaluated in halves)
RECURSIVE FlattenRange(_, _, _)
FlattenRange(ss, lo, hi) ==
  IF lo > hi THEN <<>>
  ELSE IF lo = hi THEN ss[lo]
  ELSE LET mid == (lo + hi) \div 2
       IN FlattenRange(ss, lo, mid) \o FlattenRange(ss, mid + 1, hi)

Flatten(ss) == FlattenRange(ss, 1, Len(ss))

(***************************************************************************)
(* Text.  A string is a sequence of code points; str.encode('utf-8') and   *)
(* bytes.decode('utf-8') are computed byte by byte.                        *)
(***************************************************************************)
utf8_char(cp) ==
  IF cp < 128 THEN <<cp>>
  ELSE IF cp < 2048 THEN <<192 + (cp \div 64), 128 + (cp % 64)>>
  ELSE IF cp < 65536
    THEN <<224 + (cp \div 4096), 128 + ((cp \div 64) % 64), 128 + (cp % 64)>>
  ELSE <<240 + (cp \div 262144), 128 + ((cp \div 4096) % 64),
         128 + ((cp \div 64) % 64), 128 + (cp % 64)>>

encode_utf8(s) == Flatten([i \in 1..Len(s) |-> utf8_char(s[i])])

IsCont(b) == b >= 128 /\ b < 192

\* the length of the sequence that the lead byte h opens; 0 for a byte
\* that opens none
utf8_len(h) ==
  IF h < 128 THEN 1
  ELSE IF h >= 194 /\ h < 224 THEN 2
  ELSE IF h >= 224 /\ h < 240 THEN 3
  ELSE IF h >= 240 /\ h < 245 THEN 4
  ELSE 0

\* The decoded text, or <<-1>> for UnicodeDecodeError: every byte that is
\* no continuation byte opens a sequence of its length, which holds a code
\* point that needs that length and is no surrogate.
decode_utf8(b) ==
  LET starts == { i \in 1..Len(b) : ~IsCont(b[i]) }
      cp(i) ==
        LET n == utf8_len(b[i])
        IN IF n = 1 THEN b[i]
           ELSE IF n = 2 THEN (b[i] - 192) * 64 + (b[i + 1] - 128)
           ELSE IF n = 3
             THEN (b[i] - 224) * 4096 + (b[i + 1] - 128) * 64 + (b[i + 2] - 128)
           ELSE (b[i] - 240) * 262144 + (b[i + 1] - 128) * 4096
                  + (b[i + 2] - 128) * 64 + (b[i + 3] - 128)
      ok(i) ==
        LET n == utf8_len(b[i])
        IN /\ n # 0
           /\ i + n - 1 <= Len(b)
           /\ \A k \in 1..(n - 1) : IsCont(b[i + k])
           /\ i + n <= Len(b) => ~IsCont(b[i + n])
           /\ n = 3 => cp(i) >= 2048 /\ ~(cp(i) >= 55296 /\ cp(i) <= 57343)
           /\ n = 4 => cp(i) >= 65536 /\ cp(i) <= 1114111
  IN IF (b # <<>> /\ 1 \notin starts) \/ (\E i \in starts : ~ok(i))
       THEN <<-1>>
       ELSE Flatten([i \in 1..Len(b) |-> IF i \in starts THEN <<cp(i)>> ELSE <<>>])

\* Python slicing text[a:b] with 0-based a, exclusive b, clipped to the text.
Slice(s, a, b) ==
  LET hi == IF b < Len(s) THEN b ELSE Len(s)
  IN IF a >= hi THEN <<>> ELSE SubSeq(s, a + 1, hi)

IsSpace(ch) == ch \in {32, 9, 10, 13}

RECURSIVE lstrip(_)
lstrip(s) == IF s # <<>> /\ IsSpace(Head(s)) THEN lstrip(Tail(s)) ELSE s

RECURSIVE rstrip(_)
rstrip(s) ==
  IF s # <<>> /\ IsSpace(s[Len(s)]) THEN rstrip(SubSeq(s, 1, Len(s) - 1)) ELSE s

strip(s) == rstrip(lstrip(s))

upper(s) == [i \in 1..Len(s) |-> IF s[i] >= 97 /\ s[i] <= 122 THEN s[i] - 32 ELSE s[i]]

lower(s) == [i \in 1..Len(s) |-> IF s[i] >= 65 /\ s[i] <= 90 THEN s[i] + 32 ELSE s[i]]

HexDigit(n) == IF n < 10 THEN 48 + n ELSE 55 + n

\* smartcard.util.toHexString: "AA BB CC", upper case, one space between bytes.
toHexString(bs) ==
  Flatten([i \in 1..Len(bs) |->
             (IF i = 1 THEN <<>> ELSE <<32>>)
               \o <<HexDigit(bs[i] \div 16), HexDigit(bs[i] % 16)>>])

\* len(uid.split()) for a string made by toHexString
\* a count that finds seven bytes in every UID
split_count_seven(s) == 7

RECURSIVE split_count(_)
split_count(s) ==
  LET t == lstrip(s)
  IN IF t = <<>> THEN 0
     ELSE LET RECURSIVE word(_)
              word(u) == IF u = <<>> \/ IsSpace(Head(u)) THEN u ELSE word(Tail(u))
          IN 1 + split_count(word(t))

(***************************************************************************)
(* constants.py                                                            *)
(***************************************************************************)
APDU_COMMANDS ==
  [GET_UID        |-> <<255, 202, 0, 0, 0>>,
   READ_PAGE      |-> <<255, 176, 0>>,
   READ_PAGE_ALT  |-> <<255, 48, 0>>,
   WRITE_PAGE     |-> <<255, 214, 0>>,
   WRITE_PAGE_ALT |-> <<255, 162, 0>>]

TagTypes == {"NTAG213", "NTAG215", "NTAG216", "ULTRALIGHT", "NTAG21x_2A"}

NDEF_CONFIG ==
  [NTAG213 |->
     [data_start |-> 4, data_area |-> <<4, 39>>, cc_page |-> 3,
      cc_bytes |-> <<225, 16, 18, 0>>, max_size |-> 144,
      lock_page |-> 40, lock_bytes |-> <<255, 255, 0, 0>>],
   NTAG215 |->
     [data_start |-> 4, data_area |-> <<4, 129>>, cc_page |-> 3,
      cc_bytes |-> <<225, 16, 62, 0>>, max_size |-> 504,
      lock_page |-> 130, lock_bytes |-> <<255, 255, 0, 0>>],
   NTAG216 |->
     [data_start |-> 4, data_area |-> <<4, 225>>, cc_page |-> 3,
      cc_bytes |-> <<225, 16, 109, 0>>, max_size |-> 888,
      lock_page |-> 226, lock_bytes |-> <<255, 255, 255, 0>>],
   ULTRALIGHT |->
     [data_start |-> 4, data_area |-> <<4, 15>>, cc_page |-> 3,
      cc_bytes |-> <<225, 16, 6, 0>>, max_size |-> 48,
      lock_page |-> 2, lock_bytes |-> <<255, 255, 0, 0>>],
   NTAG21x_2A |->
     [data_start |-> 4, data_area |-> <<4, 129>>, cc_page |-> 3,
      cc_bytes |-> <<225, 17, 127, 0>>, max_size |-> 1016,
      lock_page |-> 130, lock_bytes |-> <<255, 255, 0, 0>>]]

(***************************************************************************)
(* How a tag stores a page write that was answered 0x90.  The capability   *)
(* container page of a tag whose otp flag is set is one-time programmable: *)
(* the bytes written are OR-ed into the bytes already there (this is what  *)
(* makes a read-back differ from what format_tag wrote).                   *)
(***************************************************************************)
RECURSIVE BitOr(_, _)
BitOr(a, b) ==
  IF a = 0 THEN b
  ELSE IF b = 0 THEN a
  ELSE (IF a % 2 = 1 \/ b % 2 = 1 THEN 1 ELSE 0) + 2 * BitOr(a \div 2, b \div 2)

Stored(c, page, data) ==
  IF c.otp /\ page = 3
    THEN [i \in 1..PAGE_SIZE |-> BitOr(RdMem(c.mem, page)[i], data[i])]
    ELSE data

(***************************************************************************)
(* reader.py: the command layer.                                           *)
(*                                                                         *)
(* FrameOutcomes is what may happen to one command frame: answered 0x90,   *)
(* answered with another status, a transport exception (no card, link      *)
(* drop), or a KeyboardInterrupt raised while the frame is in flight.      *)
(*                                                                         *)
(* The tag context c starts as [uid, mem, otp, env, log]: the bytes GET_UID *)
(* answers with, the tag memory, the otp flag, env, the frame outcomes     *)
(* the transport may produce during the call (FrameOutcomes, or {"ok"} for *)
(* a channel on which every frame is answered 0x90), and log, the set of   *)
(* marks left by the commands issued since the context was made (kept for  *)
(* the properties): "uid" and "read" for the read commands, the call site  *)
(* of every write-page command ("probe", "clear", "cc", "data", "lock"),   *)
(* "locked" when write_data found the tag locked, and what the functions   *)
(* log about their steps: "clear_failed" (a page of the user memory could  *)
(* not be cleared), "written" (the NDEF message was written) and           *)
(* "lock_failed" (write_data could not lock the tag).                      *)
(* trace is the sequence of the page commands issued on the pages of watch *)
(* since the context was made, each with its page, its bytes (read or to   *)
(* be written) and how the call ended.  When stages is set, write_data,    *)
(* format_tag and write_ndef_message also leave the mark of TYPE_MARK for  *)
(* the variant they work with.                                             *)
(***************************************************************************)
FrameOutcomes == {"ok", "sw", "exc", "int"}

\* a _transmit that hands a transport exception back as a status
transmit_as_status(o) ==
  IF o = "exc" THEN "sw"
  ELSE IF o = "int" THEN "KeyboardInterrupt"
  ELSE o

\* one command frame answered with o: what _transmit hands back
\*   "ok"  -> returns (response, 0x90, sw2)
\*   "sw"  -> returns (response, sw1 # 0x90, sw2)
\*   "exc" -> raises NFCError("Command transmission error: ...")
\*   "int" -> KeyboardInterrupt is no Exception: it passes through
transmit(o) ==
  IF o = "exc" THEN "NFCError"
  ELSE IF o = "int" THEN "KeyboardInterrupt"
  ELSE o

Ctx(tag) ==
  [uid |-> tag.uid, mem |-> tag.mem, otp |-> tag.otp, env |-> tag.env, log |-> {},
   watch |-> {}, trace |-> <<>>, stages |-> FALSE]

Mark(c, m) == [c EXCEPT !.log = @ \cup {m}]

\* the page command op on page, with bytes data, ended as r
Trace(c, op, page, data, r) ==
  IF page \in c.watch
    THEN [c EXCEPT !.trace = Append(@, [op |-> op, page |-> page, data |-> data, r |-> r])]
    ELSE c

Out(r, v, c) == [r |-> r, v |-> v, c |-> c]

Ret(r, c) == {Out(r, <<>>, c)}

\* Sequencing: the outcomes of K on every outcome x of S.  No function of
\* the program catches KeyboardInterrupt before the handlers of main.py,
\* so it ends every caller on the way.
Bind(S, K(_)) ==
  UNION { IF x.r = "KeyboardInterrupt" THEN Ret(x.r, x.c) ELSE K(x) : x \in S }

\* a loop that sends the first encoding once more when both were refused
RECURSIVE TryCmds_again(_, _, _)
TryCmds_again(env, cmds, sent) ==
  IF cmds = <<>>
    THEN IF Len(sent) = 2 THEN TryCmds_again(env, <<sent[1].cmd>>, sent)
         ELSE {[st |-> "none", frames |-> sent]}
    ELSE UNION {
      LET now == Append(sent, [cmd |-> Head(cmds), o |-> o])
          t == transmit(o)
      IN IF t \in {"NFCError", "KeyboardInterrupt"} THEN {[st |-> t, frames |-> now]}
         ELSE IF t = "ok" THEN {[st |-> "ok", frames |-> now]}
         ELSE TryCmds_again(env, Tail(cmds), now)
      : o \in env }

\* The for-loop over the command encodings of read_page and write_page:
\* st is "ok" when an encoding was answered 0x90, "none" when every encoding
\* was answered with another status, else the exception that left _transmit;
\* frames are the commands sent, in order, each with what happened to it.
RECURSIVE TryCmds(_, _, _)
TryCmds(env, cmds, sent) ==
  IF cmds = <<>>
    THEN {[st |-> "none", frames |-> sent]}
    ELSE UNION {
      LET now == Append(sent, [cmd |-> Head(cmds), o |-> o])
          t == transmit(o)
      IN IF t \in {"NFCError", "KeyboardInterrupt"} THEN {[st |-> t, frames |-> now]}
         ELSE IF t = "ok" THEN {[st |-> "ok", frames |-> now]}
         ELSE TryCmds(env, Tail(cmds), now)
      : o \in env }

read_tag_uid(c) ==
  { LET t == transmit(o)
    IN IF t \in {"NFCError", "KeyboardInterrupt"} THEN Out(t, <<>>, Mark(c, "uid"))
       ELSE IF t = "ok" THEN Out("ok", toHexString(c.uid), Mark(c, "uid"))
       ELSE Out("None", <<>>, Mark(c, "uid"))
    : o \in c.env }

\* cmd = cmd_base + [page, 4], for both encodings
read_cmds(page) ==
  <<APDU_COMMANDS.READ_PAGE \o <<page, 4>>, APDU_COMMANDS.READ_PAGE_ALT \o <<page, 4>>>>

\* cmd = cmd_base + [page, len(data)] + list(data), for both encodings
write_cmds(page, data) ==
  <<APDU_COMMANDS.WRITE_PAGE \o <<page, Len(data)>> \o data,
    APDU_COMMANDS.WRITE_PAGE_ALT \o <<page, Len(data)>> \o data>>

\* what read_page hands back when its loop went as run
read_page_of(c, page, run) ==
  LET r == IF run.st = "none" THEN "None" ELSE run.st
      v == IF run.st = "ok" THEN RdMem(c.mem, page) ELSE <<>>
  IN Out(r, v, Trace(Mark(c, "read"), "read", page, v, r))

read_page(c, page) ==
  { read_page_of(c, page, run) : run \in TryCmds(c.env, read_cmds(page), <<>>) }

\* what write_page hands back when its loop went as run.  site names the
\* caller, for the properties; the command sent does not depend on it.
write_page_of(c, page, data, site, run) ==
  LET r == IF run.st = "ok" THEN "True" ELSE IF run.st = "none" THEN "False" ELSE run.st
  IN Out(r, <<>>,
         [Trace(Mark(c, site), "write", page, data, r) EXCEPT
            !.mem = IF run.st = "ok" THEN WrMem(@, page, Stored(c, page, data)) ELSE @])

write_page(c, page, data, site) ==
  { write_page_of(c, page, data, site, run)
    : run \in TryCmds(c.env, write_cmds(page, data), <<>>) }

PROD_TYPES == [x \in {15, 17, 19, 42} |->
                 IF x = 15 THEN "NTAG213"
                 ELSE IF x = 17 THEN "NTAG215"
                 ELSE IF x = 19 THEN "NTAG216"
                 ELSE "NTAG21x_2A"]

\* version_data of get_tag_type (lines 91-95): pages 0..2, each kept when
\* its read returned data.  Outcomes with r "ok" or "NFCError".
RECURSIVE version_data(_, _, _)
version_data(c, page, acc) ==
  IF page > 2 THEN {Out("ok", acc, c)}
  ELSE Bind(read_page(c, page),
            LAMBDA d : IF d.r = "NFCError" THEN Ret("NFCError", d.c)
                       ELSE version_data(d.c, page + 1,
                                         IF d.r = "ok" THEN acc \o d.v ELSE acc))

\* the marks of the variant a stage of a write works with: "check" is the
\* tag_type of write_data, "format" that of format_tag, "write" that of
\* write_ndef_message
TYPE_MARK ==
  [check |-> [NTAG213 |-> "check:NTAG213", NTAG215 |-> "check:NTAG215",
              NTAG216 |-> "check:NTAG216", ULTRALIGHT |-> "check:ULTRALIGHT",
              NTAG21x_2A |-> "check:NTAG21x_2A"],
   format |-> [NTAG213 |-> "format:NTAG213", NTAG215 |-> "format:NTAG215",
               NTAG216 |-> "format:NTAG216", ULTRALIGHT |-> "format:ULTRALIGHT",
               NTAG21x_2A |-> "format:NTAG21x_2A"],
   write |-> [NTAG213 |-> "write:NTAG213", NTAG215 |-> "write:NTAG215",
              NTAG216 |-> "write:NTAG216", ULTRALIGHT |-> "write:ULTRALIGHT",
              NTAG21x_2A |-> "write:NTAG21x_2A"]]

\* the stage works with variant tag_type
Stage(c, stage, tag_type) ==
  IF c.stages THEN Mark(c, TYPE_MARK[stage][tag_type]) ELSE c

\* a fallback that reads the capability container and does not use it
by_memory_size_unused(c) ==
  Bind(read_page(c, 3),
       LAMBDA cc : IF cc.r = "NFCError" THEN Ret("NFCError", cc.c)
                   ELSE Ret("ULTRALIGHT", cc.c))

\* get_tag_type, lines 108-119: the variant from the capability container
by_memory_size(c) ==
  Bind(read_page(c, 3),
       LAMBDA cc :
         IF cc.r = "NFCError" THEN Ret("NFCError", cc.c)
         ELSE IF cc.r = "ok" /\ cc.v[1] = 225
           THEN LET memory_size == cc.v[3] * 8
                IN IF memory_size = 1016 THEN Ret("NTAG21x_2A", cc.c)
                   ELSE IF memory_size = 144 THEN Ret("NTAG213", cc.c)
                   ELSE IF memory_size = 504 THEN Ret("NTAG215", cc.c)
                   ELSE Ret("ULTRALIGHT", cc.c)
           ELSE Ret("ULTRALIGHT", cc.c))

get_tag_type(c) ==
  Bind(read_tag_uid(c),
       LAMBDA u :
         IF u.r = "NFCError" THEN Ret("NFCError", u.c)
         ELSE IF u.r = "None" \/ u.v = <<>> THEN Ret("None", u.c)
         ELSE Bind(read_page(u.c, 0),
                   LAMBDA p0 :
                     IF p0.r = "NFCError" THEN Ret("NFCError", p0.c)
                     ELSE IF p0.r = "None" \/ split_count(u.v) # 7 THEN Ret("None", p0.c)
                     ELSE IF p0.v[1] = 4
                       THEN Bind(version_data(p0.c, 0, <<>>),
                                 LAMBDA vd :
                                   IF vd.r = "NFCError" THEN Ret("NFCError", vd.c)
                                   ELSE IF Len(vd.v) >= 8 /\ vd.v[7] \in DOMAIN PROD_TYPES
                                     THEN Ret(PROD_TYPES[vd.v[7]], vd.c)
                                     ELSE by_memory_size(vd.c))
                       ELSE Ret("ULTRALIGHT", p0.c)))

(***************************************************************************)
(* ndef_utils.py: NFDEFHandler                                             *)
(***************************************************************************)
\* a test write of zeros
is_locked_probe_zeros(c, tag_type) ==
  LET test_page == NDEF_CONFIG[tag_type].data_start
  IN Bind(read_page(c, test_page),
          LAMBDA t :
            IF t.r = "ok"
              THEN Bind(write_page(t.c, test_page, Zero4, "probe"),
                        LAMBDA w : IF w.r = "False" THEN Ret("True", w.c)
                                   ELSE Ret("False", w.c))
              ELSE Ret("False", t.c))

\* a test write whose transport exception leaves is_locked
is_locked_probe_raising(c, tag_type) ==
  LET test_page == NDEF_CONFIG[tag_type].data_start
  IN Bind(read_page(c, test_page),
          LAMBDA t :
            IF t.r = "ok"
              THEN Bind(write_page(t.c, test_page, t.v, "probe"),
                        LAMBDA w : IF w.r = "False" THEN Ret("True", w.c)
                                   ELSE IF w.r = "NFCError" THEN Ret("NFCError", w.c)
                                   ELSE Ret("False", w.c))
              ELSE Ret("False", t.c))

\* the test write of is_locked (lines 51-61)
is_locked_probe(c, tag_type) ==
  LET test_page == NDEF_CONFIG[tag_type].data_start
  IN Bind(read_page(c, test_page),
          LAMBDA t :
            IF t.r = "ok"
              THEN Bind(write_page(t.c, test_page, t.v, "probe"),
                        LAMBDA w : IF w.r = "False" THEN Ret("True", w.c)
                                   ELSE Ret("False", w.c))
              ELSE Ret("False", t.c))

\* a check of the dynamic lock bits that tests byte 0 for every variant
is_locked_dynamic_byte0(c, tag_type) ==
  IF tag_type # "ULTRALIGHT"
    THEN Bind(read_page(c, NDEF_CONFIG[tag_type].lock_page),
              LAMBDA l :
                IF l.r = "NFCError" THEN Ret("False", l.c)
                ELSE IF l.r = "ok"
                  THEN Ret(IF l.v[1] # 0 THEN "True" ELSE "False", l.c)
                  ELSE is_locked_probe(l.c, tag_type))
    ELSE is_locked_probe(c, tag_type)

\* the dynamic lock bits of is_locked (lines 36-49)
is_locked_dynamic(c, tag_type) ==
  IF tag_type # "ULTRALIGHT"
    THEN Bind(read_page(c, NDEF_CONFIG[tag_type].lock_page),
              LAMBDA l :
                IF l.r = "NFCError" THEN Ret("False", l.c)
                ELSE IF l.r = "ok"
                  THEN IF tag_type = "NTAG213"
                         THEN Ret(IF l.v[1] # 0 THEN "True" ELSE "False", l.c)
                       ELSE IF tag_type \in {"NTAG215", "NTAG21x_2A"}
                         THEN Ret(IF l.v[1] # 0 \/ l.v[2] # 0 THEN "True" ELSE "False", l.c)
                       ELSE Ret(IF l.v[1] # 0 \/ l.v[2] # 0 \/ l.v[3] # 0
                                  THEN "True" ELSE "False", l.c)
                  ELSE is_locked_probe(l.c, tag_type))
    ELSE is_locked_probe(c, tag_type)

\* a check that reads no lock bits and only makes the test write
is_locked_by_probe(c, tag_type) == is_locked_probe(c, tag_type)

is_locked(c, tag_type) ==
  Bind(read_page(c, 2),
       LAMBDA s :
         IF s.r = "NFCError" THEN Ret("False", s.c)
         ELSE IF s.r = "ok" /\ (s.v[3] # 0 \/ s.v[4] # 0) THEN Ret("True", s.c)
         ELSE is_locked_dynamic(s.c, tag_type))

\* the loop of clear_tag over the user memory pages (lines 78-87): the
\* pages from page to end_page are written in increasing order until a
\* write fails.  (The range is evaluated in halves, first the lower one,
\* which keeps the evaluation shallow.)
RECURSIVE clear_pages(_, _, _)
clear_pages(c, page, end_page) ==
  IF page > end_page THEN Ret("True", c)
  ELSE IF page = end_page
    THEN Bind(write_page(c, page, Zero4, "clear"),
              LAMBDA w : IF w.r = "True" THEN Ret("True", w.c)
                         ELSE Ret("False", Mark(w.c, "clear_failed")))
    ELSE LET mid == (page + end_page) \div 2
         IN Bind(clear_pages(c, page, mid),
                 LAMBDA h : IF h.r = "True" THEN clear_pages(h.c, mid + 1, end_page)
                            ELSE Ret("False", h.c))

clear_tag(c, tag_type) ==
  Bind(is_locked(c, tag_type),
       LAMBDA l :
         IF l.r = "True" THEN Ret("TagLockedException", l.c)
         ELSE clear_pages(l.c, NDEF_CONFIG[tag_type].data_start,
                          NDEF_CONFIG[tag_type].data_area[2]))

\* the capability container write of format_tag with its retries (lines 110-118)
RECURSIVE write_cc(_, _, _, _)
write_cc(c, config, attempt, max_retries) ==
  Bind(write_page(c, config.cc_page, config.cc_bytes, "cc"),
       LAMBDA w :
         IF w.r = "NFCError" THEN Ret("NFCError", w.c)
         ELSE IF w.r = "True" THEN Ret("True", w.c)
         ELSE IF attempt = max_retries - 1 THEN Ret("False", w.c)
         ELSE write_cc(w.c, config, attempt + 1, max_retries))

\* a read-back that accepts every larger size byte, whatever the other
\* bytes hold
verify_cc_any_larger(c, config) ==
  LET cc_bytes == config.cc_bytes
  IN Bind(read_page(c, config.cc_page),
          LAMBDA rb :
            IF rb.r # "ok" THEN Ret("False", rb.c)
            ELSE IF rb.v # cc_bytes
              THEN IF rb.v[3] > cc_bytes[3]
                     THEN Ret("True", rb.c)
                     ELSE Bind(write_page(rb.c, config.cc_page,
                                          <<cc_bytes[1], cc_bytes[2], rb.v[3], cc_bytes[4]>>,
                                          "cc"),
                               LAMBDA w : IF w.r = "True" THEN Ret("True", w.c)
                                          ELSE Ret("False", w.c))
              ELSE Ret("True", rb.c))

\* the read-back of format_tag (lines 120-139)
verify_cc(c, config) ==
  LET cc_bytes == config.cc_bytes
  IN Bind(read_page(c, config.cc_page),
          LAMBDA rb :
            IF rb.r # "ok" THEN Ret("False", rb.c)
            ELSE IF rb.v # cc_bytes
              THEN IF rb.v[1] = cc_bytes[1] /\ rb.v[2] = cc_bytes[2]
                      /\ rb.v[4] = cc_bytes[4] /\ rb.v[3] > cc_bytes[3]
                     THEN Ret("True", rb.c)
                     ELSE Bind(write_page(rb.c, config.cc_page,
                                          <<cc_bytes[1], cc_bytes[2], rb.v[3], cc_bytes[4]>>,
                                          "cc"),
                               LAMBDA w : IF w.r = "True" THEN Ret("True", w.c)
                                          ELSE Ret("False", w.c))
              ELSE Ret("True", rb.c))

format_tag(c) ==
  Bind(get_tag_type(c),
       LAMBDA t :
         IF t.r \in {"NFCError", "None"} THEN Ret("False", t.c)
         ELSE Bind(clear_tag(Stage(t.c, "format", t.r), t.r),
                   LAMBDA cl :
                     IF cl.r = "TagLockedException" THEN Ret("False", cl.c)
                     ELSE Bind(write_cc(cl.c, NDEF_CONFIG[t.r], 0, 3),
                               LAMBDA w :
                                 IF w.r # "True" THEN Ret("False", w.c)
                                 ELSE verify_cc(w.c, NDEF_CONFIG[t.r]))))

\* the TLV of write_ndef_message (lines 154-174); <<-1>> when bytes([...])
\* raises ValueError because a length does not fit a byte
tlv_data(nft_data) ==
  LET data == nft_data.version \o nft_data.nft_id \o nft_data.offer
      payload == <<2, 101, 110>> \o encode_utf8(data)
      ndef_record == <<209, 1, Len(payload), 84>> \o payload
  IN IF Len(payload) > 255 \/ Len(ndef_record) > 255 THEN <<-1>>
     ELSE <<3, Len(ndef_record)>> \o ndef_record \o <<254>>

\* the write loop of write_ndef_message (lines 180-188): chunk k (from 0)
\* is tlv[4k : 4k+4], zero-padded, written to page data_start + k; the
\* chunks lo..hi are written in increasing order until a write fails.
\* (Evaluated in halves, first the lower one.)
RECURSIVE write_chunks(_, _, _, _, _)
write_chunks(c, tlv, data_start, lo, hi) ==
  IF lo > hi THEN Ret("True", c)
  ELSE IF lo = hi
    THEN Bind(write_page(c, data_start + lo, ljust4(Slice(tlv, 4 * lo, 4 * lo + 4)), "data"),
              LAMBDA w : IF w.r = "True" THEN Ret("True", w.c) ELSE Ret("False", w.c))
    ELSE LET mid == (lo + hi) \div 2
         IN Bind(write_chunks(c, tlv, data_start, lo, mid),
                 LAMBDA h : IF h.r = "True"
                              THEN write_chunks(h.c, tlv, data_start, mid + 1, hi)
                              ELSE Ret("False", h.c))

\* a count that leaves out a last chunk of fewer than 4 bytes
chunk_count_floor(n) == n \div 4

\* the number of turns of range(0, n, 4)
chunk_count(n) == (n + 3) \div 4

\* a capacity check that lets every TLV pass
too_large_never(tlv, config) == FALSE

\* len(tlv_data) > config['max_size']
too_large(tlv, config) == Len(tlv) > config.max_size

write_ndef_message(c, nft_data) ==
  Bind(get_tag_type(c),
       LAMBDA t :
         IF t.r \in {"NFCError", "None"} THEN Ret("False", t.c)
         ELSE LET config == NDEF_CONFIG[t.r]
                  tlv == tlv_data(nft_data)
                  tc == Stage(t.c, "write", t.r)
              IN IF tlv = <<-1>> THEN Ret("False", tc)
                 ELSE IF too_large(tlv, config) THEN Ret("False", tc)
                 ELSE Bind(write_chunks(tc, tlv, config.data_start, 0,
                                        chunk_count(Len(tlv)) - 1),
                           LAMBDA w : IF w.r = "True" THEN Ret("True", Mark(w.c, "written"))
                                      ELSE Ret("False", w.c)))

\* the page reads of read_ndef_message (lines 228-233): the pages from
\* page to last are read in increasing order until a read fails; v is what
\* they hold, concatenated.  (Evaluated in halves, first the lower one.)
RECURSIVE read_pages(_, _, _)
read_pages(c, page, last_page) ==
  IF page > last_page THEN {Out("ok", <<>>, c)}
  ELSE IF page = last_page
    THEN Bind(read_page(c, page),
              LAMBDA d : IF d.r = "ok" THEN {Out("ok", d.v, d.c)} ELSE Ret("None", d.c))
    ELSE LET mid == (page + last_page) \div 2
         IN Bind(read_pages(c, page, mid),
                 LAMBDA a :
                   IF a.r # "ok" THEN Ret("None", a.c)
                   ELSE Bind(read_pages(a.c, mid + 1, last_page),
                             LAMBDA b : IF b.r # "ok" THEN Ret("None", b.c)
                                        ELSE {Out("ok", a.v \o b.v, b.c)}))

\* the parse of read_ndef_message (lines 237-259): the record, or <<>> when
\* the payload is not UTF-8
parse_message(message, msg_length) ==
  LET payload_start == 9
      payload == Slice(message, payload_start, msg_length + 2)
      text == decode_utf8(payload)
  IN IF text = <<-1>> THEN <<>>
     ELSE [version |-> Slice(text, 0, 5),
           nft_id |-> Slice(text, 5, 67),
           offer |-> Slice(text, 67, Len(text))]

\* a page count rounded up from msg_length + 2 + 3
pages_needed_ceil(msg_length) == (msg_length + 2 + 3 + 3) \div 4

\* line 226: pages_needed = (msg_length + 2 + 3) // 4
pages_needed_of(msg_length) == (msg_length + 2 + 3) \div 4

\* Outcomes: r is "ok" with the record v, or "None".
read_ndef_message(c) ==
  Bind(get_tag_type(c),
       LAMBDA t :
         IF t.r \in {"NFCError", "None"} THEN Ret("None", t.c)
         ELSE LET config == NDEF_CONFIG[t.r]
              IN Bind(read_page(t.c, config.data_start),
                      LAMBDA data :
                        IF data.r # "ok" THEN Ret("None", data.c)
                        ELSE IF data.v[1] # 3 THEN Ret("None", data.c)
                        ELSE LET msg_length == data.v[2]
                                 pages_needed == pages_needed_of(msg_length)
                             IN Bind(read_pages(data.c, config.data_start,
                                                config.data_start + pages_needed - 1),
                                     LAMBDA m :
                                       IF m.r # "ok" THEN Ret("None", m.c)
                                       ELSE LET rec == parse_message(m.v, msg_length)
                                            IN IF rec = <<>> THEN Ret("None", m.c)
                                               ELSE {Out("ok", rec, m.c)})))

\* a lock-byte write of lock_tag, tried up to 3 times (lines 278-284, 291-297)
RECURSIVE write_lock(_, _, _, _)
write_lock(c, page, bytes, tries) ==
  IF tries = 0 THEN Ret("False", c)
  ELSE Bind(write_page(c, page, bytes, "lock"),
            LAMBDA w : IF w.r = "NFCError" THEN Ret("NFCError", w.c)
                       ELSE IF w.r = "True" THEN Ret("True", w.c)
                       ELSE write_lock(w.c, page, bytes, tries - 1))

\* the verification of lock_tag (lines 299-306)
verify_lock(c, tag_type) ==
  Bind(is_locked(c, tag_type),
       LAMBDA v : IF v.r = "True" THEN Ret("True", v.c) ELSE Ret("False", v.c))

\* a lock_tag that goes on to the next stage whatever a stage returned
lock_tag_unchecked(c, tag_type) ==
  LET config == NDEF_CONFIG[tag_type]
  IN Bind(write_lock(c, 2, <<0, 0, 255, 255>>, 3),
          LAMBDA s :
            IF tag_type # "ULTRALIGHT"
              THEN Bind(write_lock(s.c, config.lock_page, config.lock_bytes, 3),
                        LAMBDA d : verify_lock(d.c, tag_type))
              ELSE verify_lock(s.c, tag_type))

\* lock_tag with tag_type given (the call of write_data)
lock_tag(c, tag_type) ==
  LET config == NDEF_CONFIG[tag_type]
  IN Bind(write_lock(c, 2, <<0, 0, 255, 255>>, 3),
          LAMBDA s :
            IF s.r # "True" THEN Ret("False", s.c)
            ELSE IF tag_type # "ULTRALIGHT"
              THEN Bind(write_lock(s.c, config.lock_page, config.lock_bytes, 3),
                        LAMBDA d : IF d.r # "True" THEN Ret("False", d.c)
                                   ELSE verify_lock(d.c, tag_type))
              ELSE verify_lock(s.c, tag_type))

(***************************************************************************)
(* reader.py: NFCReader.write_data and read_data                           *)
(***************************************************************************)
\* a write_data that locks the formatted tag before it writes the message
write_pipeline_lock_first(c, tag_type, nft_data, lock) ==
  Bind(format_tag(c),
       LAMBDA f :
         IF f.r # "True" THEN Ret("False", f.c)
         ELSE Bind(IF lock THEN lock_tag(f.c, tag_type) ELSE Ret("True", f.c),
                   LAMBDA k :
                     IF k.r # "True" THEN Ret("False", Mark(k.c, "lock_failed"))
                     ELSE Bind(write_ndef_message(k.c, nft_data),
                               LAMBDA w : IF w.r # "True" THEN Ret("False", w.c)
                                          ELSE Ret("True", w.c))))

\* write_data, lines 168-186: format, write the message, lock if requested
write_pipeline(c, tag_type, nft_data, lock) ==
  Bind(format_tag(c),
       LAMBDA f :
         IF f.r # "True" THEN Ret("False", f.c)
         ELSE Bind(write_ndef_message(f.c, nft_data),
                   LAMBDA w :
                     IF w.r # "True" THEN Ret("False", w.c)
                     ELSE IF lock
                       THEN Bind(lock_tag(w.c, tag_type),
                                 LAMBDA k :
                                   IF k.r # "True"
                                     THEN Ret("False", Mark(k.c, "lock_failed"))
                                     ELSE Ret("True", k.c))
                       ELSE Ret("True", w.c)))

\* a write_data that goes on after it found the tag locked
write_data_despite_lock(c, nft_data, lock) ==
  Bind(get_tag_type(c),
       LAMBDA t :
         IF t.r \in {"NFCError", "None"} THEN Ret("False", t.c)
         ELSE Bind(is_locked(t.c, t.r),
                   LAMBDA l :
                     write_pipeline(IF l.r = "True" THEN Mark(l.c, "locked") ELSE l.c,
                                    t.r, nft_data, lock)))

\* a write_data that lets the exception of a locked tag out
write_data_raising(c, nft_data, lock) ==
  Bind(get_tag_type(c),
       LAMBDA t :
         IF t.r \in {"NFCError", "None"} THEN Ret("False", t.c)
         ELSE Bind(is_locked(t.c, t.r),
                   LAMBDA l :
                     IF l.r = "True" THEN Ret("TagLockedException", Mark(l.c, "locked"))
                     ELSE write_pipeline(l.c, t.r, nft_data, lock)))

write_data(c, nft_data, lock) ==
  Bind(get_tag_type(c),
       LAMBDA t :
         IF t.r \in {"NFCError", "None"} THEN Ret("False", t.c)
         ELSE Bind(is_locked(Stage(t.c, "check", t.r), t.r),
                   LAMBDA l :
                     IF l.r = "True" THEN Ret("False", Mark(l.c, "locked"))
                     ELSE write_pipeline(l.c, t.r, nft_data, lock)))

read_data(c) == read_ndef_message(c)

(***************************************************************************)
(* nft/data.py: NFTData                                                    *)
(***************************************************************************)
DEFAULT_VERSION == <<68, 84, 48, 48, 49>>   \* "DT001"

DEFAULT_OFFER_LENGTH == 64

LEGACY_OFFER_LENGTH == 5

MAX_OFFER_LENGTH == 64

\* NFTData(version, nft_id, offer): the object __post_init__ leaves; err is
\* "ValueError" when it raised
NFTData(version, nft_id, offer) ==
  LET v == IF version = <<>> THEN DEFAULT_VERSION ELSE version
      err == IF nft_id = <<>> THEN "ValueError"
             ELSE IF offer = <<>> THEN "ValueError"
             ELSE IF Len(v) > 5 THEN "ValueError"
             ELSE IF Len(nft_id) > 62 THEN "ValueError"
             ELSE "none"
  IN [version |-> v, nft_id |-> nft_id, offer |-> offer, err |-> err]

\* a validation that only checks the maximum, whatever strict is
validate_offer_length_lenient(self, strict, legacy) ==
  IF Len(self.offer) > MAX_OFFER_LENGTH THEN "ValueError" ELSE "True"

validate_offer_length(self, strict, legacy) ==
  LET offer_len == Len(self.offer)
      target_len == IF legacy THEN LEGACY_OFFER_LENGTH ELSE DEFAULT_OFFER_LENGTH
  IN IF strict
       THEN IF offer_len # target_len THEN "ValueError" ELSE "True"
       ELSE IF offer_len > MAX_OFFER_LENGTH THEN "ValueError" ELSE "True"

(***************************************************************************)
(* main.py                                                                 *)
(***************************************************************************)
validate_nft_data(data, legacy, strict) ==
  LET nft_data == NFTData(data.version, data.nft_id, data.offer)
  IN IF nft_data.err = "ValueError" THEN FALSE
     ELSE validate_offer_length(nft_data, strict, legacy) = "True"

\* a close() that leaves the connection as it is
close_nothing(connection) == connection

\* reader.close(): disconnects when there is a connection
close(connection) == IF connection = "open" THEN "closed" ELSE connection

\* what the operator may type, as code points
STR_q == <<113>>
STR_Q == <<81>>
STR_s == <<115>>
STR_r == <<114>>
STR_enter == <<>>
STR_yes == <<121, 101, 115>>
STR_Yes == <<89, 101, 115>>
STR_no == <<110, 111>>
STR_other == <<109>>
STR_LOCK == <<76, 79, 67, 75>>
STR_lock == <<108, 111, 99, 107>>

(***************************************************************************)
(* The state.                                                              *)
(*   cmd      args.command                                                 *)
(*   args     the other arguments of the command line                      *)
(*   pc       where the handler is: "start", "connected", "ask_lock",      *)
(*            "confirm", "loop", then "returned" or "raised" (an exception *)
(*            left the handler); "unit" when a single function is applied  *)
(*   conn     reader.connection: "none", "open" or "closed"                *)
(*   tags     the tags at hand: [uid, mem, otp, env] each                  *)
(*   records  what CSVHandler.read_records returns                         *)
(*   bat      the locals of handle_batch_operation                         *)
(*   scn      the locals of handle_scan_uids and the output file           *)
(*   out      what the last step of the handler showed: its message, its   *)
(*            prompt of the retry/skip/quit kind, the UID it scanned, and *)
(*            the summary once it is logged                                *)
(*   last     the last call made on a tag: its name, its result r and      *)
(*            value v, the marks of its commands, and n, the number of     *)
(*            write_data calls made so far                                 *)
(***************************************************************************)
VARIABLES cmd, args, pc, conn, tags, records, bat, scn, out, last

vars == <<cmd, args, pc, conn, tags, records, bat, scn, out, last>>

NoCall == [op |-> "none", r |-> "none", v |-> <<>>, log |-> {}, n |-> 0]

\* the call op ended as outcome o
Call(op, o) ==
  [op |-> op, r |-> o.r, v |-> o.v, log |-> o.c.log,
   n |-> IF op = "write_data" THEN last.n + 1 ELSE last.n]

NoBat == [total |-> 0, success_count |-> 0, fail_count |-> 0, lock_choice |-> STR_no,
          choice |-> <<>>, confirm |-> <<>>, processed_uids |-> {}]

NoOut == [msg |-> "none", prompt |-> "none", scanned |-> <<>>, summary |-> <<>>]

\* what a step shows
Show(msg, prompt, scanned) ==
  [out EXCEPT !.msg = msg, !.prompt = prompt, !.scanned = scanned]

\* the tag as the call left it
TagAfter(tag, o) == [tag EXCEPT !.mem = o.c.mem]

(***************************************************************************)
(* The inputs.                                                             *)
(***************************************************************************)
UID_A == <<170, 187, 204, 221, 238, 255, 17>>
UID_B == <<4, 18, 52, 86, 120, 154, 188>>
UID_C == <<4, 1, 2, 3, 4, 5, 6>>
UID_4 == <<222, 173, 190, 239>>

\* an identifier of n characters: "nft1" and then "q"s
NftId(n) == [i \in 1..n |-> IF i = 1 THEN 110 ELSE IF i = 2 THEN 102
                            ELSE IF i = 3 THEN 116 ELSE IF i = 4 THEN 49 ELSE 113]

\* an offer of n characters "A", "B", ..; with accent, the last one is U+00E9
Offer(n, accent) == [i \in 1..n |-> IF accent /\ i = n THEN 233 ELSE 64 + ((i - 1) % 26) + 1]

\* page 0..3 of a tag: manufacturer byte, product type byte (byte 6 of
\* pages 0..2), static lock bytes, capability container
Image(mfr, prod, lock, cc) ==
  LET m == [p \in 0..3 |-> IF p = 0 THEN <<mfr, 1, 2, 3>>
                           ELSE IF p = 1 THEN <<5, 6, prod, 7>>
                           ELSE IF p = 2 THEN <<8, 9, lock, 0>>
                           ELSE cc]
  IN [p \in {q \in 0..3 : m[q] # Zero4} |-> m[p]]

\* a tag at hand; env is what may happen to a frame while it is on the
\* reader: a tag held well answers every frame
Tag(uid, mem, otp, env) == [uid |-> uid, mem |-> mem, otp |-> otp, env |-> env]

Steady == {"ok"}

CsvRecord(uid, version, nft_id, offer) ==
  [uid |-> uid, version |-> version, nft_id |-> nft_id, offer |-> offer]

\* the identifier length of the records of the batch inputs
BatchIdLen == 6

REC_A == CsvRecord(toHexString(UID_A), DEFAULT_VERSION, NftId(BatchIdLen), Offer(5, FALSE))

\* the UID as a CSV written by hand has it: lower case, blanks around
REC_B == CsvRecord(<<32>> \o lower(toHexString(UID_B)) \o <<32>>, DEFAULT_VERSION,
                   NftId(BatchIdLen), Offer(5, FALSE))

REC_BAD == CsvRecord(toHexString(UID_B), DEFAULT_VERSION, NftId(BatchIdLen), Offer(6, FALSE))

\* offers of the current length and of one character more than the maximum
REC_64 == CsvRecord(toHexString(UID_B), DEFAULT_VERSION, NftId(BatchIdLen),
                    Offer(DEFAULT_OFFER_LENGTH, FALSE))

REC_65 == CsvRecord(toHexString(UID_B), DEFAULT_VERSION, NftId(BatchIdLen),
                    Offer(MAX_OFFER_LENGTH + 1, FALSE))

\* the files: among them one with two rows for one UID (REC_B, REC_BAD),
\* which nothing in read_records or in the validation refuses
BatchInputs ==
  { <<>>, <<REC_A>>, <<REC_B>>, <<REC_A, REC_B>>, <<REC_A, REC_BAD>>, <<REC_64>>,
    <<REC_A, REC_65>>, <<REC_B, REC_BAD>> }

\* tag 1 answers UID_A and any frame sent to it may fail; tag 2 answers
\* UID_B, is held well, and has its static lock bits set or not; tag 3 is
\* in no record
BatchTags ==
  { [i \in 1..3 |-> IF i = 1 THEN Tag(UID_A, Image(4, 15, 0, Zero4), FALSE, FrameOutcomes)
                    ELSE IF i = 2 THEN Tag(UID_B, Image(4, 15, lockB, Zero4), FALSE, Steady)
                    ELSE Tag(UID_C, Image(4, 15, 0, Zero4), FALSE, FrameOutcomes)]
    : lockB \in {0, 255} }

(***************************************************************************)
(* main.py: what every handler does around its work.                       *)
(***************************************************************************)
\* reader.connect(): True, False (a NoCardException at the outer level) or
\* ReaderConnectionError raised
connect_results == {"True", "False", "ReaderConnectionError"}

\* reader = NFCReader(); if not reader.connect(): return
\* (handle_scan_uids gets there after it has loaded its files)
Connect ==
  /\ pc = IF cmd = "scan" THEN "ready" ELSE "start"
  /\ \E res \in connect_results :
       /\ conn' = IF res = "True" THEN "open" ELSE conn
       /\ pc' = IF res = "True" THEN "connected"
                ELSE IF res = "False" THEN "returned" ELSE "raised"
  /\ UNCHANGED <<cmd, args, tags, records, bat, scn, out, last>>

\* return, or the end of the try block: finally reader.close()
Return(msg) ==
  /\ out' = Show(msg, "none", <<>>)
  /\ conn' = close(conn)
  /\ pc' = "returned"

\* except KeyboardInterrupt: the message, then finally reader.close()
Interrupted ==
  /\ out' = Show("stopped", "none", <<>>)
  /\ conn' = close(conn)
  /\ pc' = "returned"

\* any other exception: finally reader.close(), and it leaves the handler
Raised ==
  /\ out' = Show("raised", "none", <<>>)
  /\ conn' = close(conn)
  /\ pc' = "raised"

\* lines 362-370 of handle_scan_uids, after the try statement
ScanComplete(sc) ==
  IF sc.rows # <<>>
    THEN IF Len(sc.rows) - sc.count > 0 THEN <<"remain", Len(sc.rows) - sc.count>>
         ELSE <<"all_assigned", 0>>
    ELSE <<"total", Cardinality(sc.existing_uids)>>

\* handle_scan_uids, except KeyboardInterrupt (lines 354-360): nft_index is
\* read when nft_data_rows is not empty, and it is bound only once the
\* output file is open (line 284)
ScanInterrupted(sc) ==
  IF sc.rows # <<>> /\ pc = "connected"
    THEN Raised
    ELSE /\ out' = [Show("stopped", "none", <<>>) EXCEPT !.summary = ScanComplete(sc)]
         /\ conn' = close(conn)
         /\ pc' = "returned"

\* a KeyboardInterrupt while the handler waits at one of its prompts
KeyboardInterrupt ==
  /\ pc \in {"connected", "ask_lock", "confirm", "loop"}
  /\ IF cmd = "scan" THEN ScanInterrupted(scn) ELSE Interrupted
  /\ UNCHANGED <<cmd, args, tags, records, bat, scn, last>>

(***************************************************************************)
(* main.py: handle_batch_operation                                         *)
(***************************************************************************)
\* lines 111-131: the records are read and validated
BatchLoad ==
  /\ cmd = "batch" /\ pc = "connected"
  /\ IF records = <<>>
       THEN Return("no_records") /\ UNCHANGED bat
       ELSE IF \E i \in 1..Len(records) :
                 ~validate_nft_data(records[i], args.legacy_offer, ~args.allow_any_length)
         THEN Return("validation_failed") /\ UNCHANGED bat
         ELSE /\ bat' = [NoBat EXCEPT !.total = Len(records)]
              /\ pc' = "ask_lock"
              /\ UNCHANGED <<conn, out>>
  /\ UNCHANGED <<cmd, args, tags, records, scn, last>>

\* lines 133-141: one answer to "Lock tags to prevent future writes?"
BatchAskLock ==
  /\ cmd = "batch" /\ pc = "ask_lock"
  /\ \E answer \in {STR_enter, STR_yes, STR_Yes, STR_no, STR_other} :
       LET choice == lower(answer)
       IN IF choice = <<>> \/ choice \in {STR_yes, STR_no}
            THEN IF choice = STR_yes
                   THEN /\ bat' = [bat EXCEPT !.choice = choice, !.lock_choice = choice]
                        /\ pc' = "confirm"
                   ELSE /\ bat' = [bat EXCEPT !.choice = choice]
                        /\ pc' = "loop"
            ELSE /\ bat' = [bat EXCEPT !.choice = choice]
                 /\ UNCHANGED pc
  /\ UNCHANGED <<cmd, args, conn, tags, records, scn, out, last>>

\* a confirmation that takes the word in any case
confirmed_any_case(confirm) == upper(confirm) = STR_LOCK

\* line 145: the locking stays chosen unless confirm != 'LOCK'
confirmed(confirm) == confirm = STR_LOCK

\* lines 143-147: "Type 'LOCK' to confirm"
BatchConfirmLock ==
  /\ cmd = "batch" /\ pc = "confirm"
  /\ \E confirm \in {STR_LOCK, STR_lock, STR_enter} :
       bat' = [bat EXCEPT !.confirm = confirm,
                          !.lock_choice = IF ~confirmed(confirm) THEN STR_no ELSE @]
  /\ pc' = "loop"
  /\ UNCHANGED <<cmd, args, conn, tags, records, scn, out, last>>

\* lines 227-229
Summary(b) ==
  <<b.success_count, b.fail_count, b.total - b.success_count - b.fail_count>>

\* break: the summary is logged and the try block ends
BatchBreak(b, prompt) ==
  /\ bat' = b
  /\ out' = [Show("quit", prompt, <<>>) EXCEPT !.summary = Summary(b)]
  /\ conn' = close(conn)
  /\ pc' = "returned"

\* continue, or the end of the loop body: the loop condition of line 152
BatchAgain(b, msg, prompt, scanned) ==
  /\ bat' = b
  /\ IF Cardinality(b.processed_uids) < b.total
       THEN /\ out' = Show(msg, prompt, scanned)
            /\ UNCHANGED <<conn, pc>>
       ELSE /\ out' = [Show(msg, prompt, scanned) EXCEPT !.summary = Summary(b)]
            /\ conn' = close(conn)
            /\ pc' = "returned"

\* a lookup that takes the first record whatever its UID
matching_record_first(scanned_uid) == IF records = <<>> THEN 0 ELSE 1

\* the first record whose UID is the scanned one (lines 166-171); 0 for None
matching_record(scanned_uid) ==
  LET hits == { i \in 1..Len(records) : upper(strip(records[i].uid)) = scanned_uid }
  IN IF hits = {} THEN 0 ELSE CHOOSE i \in hits : \A j \in hits : i <= j

\* a bookkeeping that counts every write as failed
processed_as_failed(b, scanned_uid, ok) ==
  [b EXCEPT !.fail_count = @ + 1, !.processed_uids = @ \cup {scanned_uid}]

\* a bookkeeping that counts the write and forgets the UID
processed_forgotten(b, scanned_uid, ok) ==
  [b EXCEPT !.success_count = IF ok THEN @ + 1 ELSE @,
            !.fail_count = IF ok THEN @ ELSE @ + 1]

\* lines 192-199: the counters and processed_uids after a write
processed(b, scanned_uid, ok) ==
  [b EXCEPT !.success_count = IF ok THEN @ + 1 ELSE @,
            !.fail_count = IF ok THEN @ ELSE @ + 1,
            !.processed_uids = @ \cup {scanned_uid}]

\* lines 181-225: the write of one matched tag and what follows it
BatchWrite(t, scanned_uid, rec) ==
  LET nft_data == [version |-> rec.version, nft_id |-> rec.nft_id, offer |-> rec.offer]
  IN \E w \in write_data(Ctx(tags[t]), nft_data, bat.lock_choice = STR_yes) :
       /\ tags' = [tags EXCEPT ![t] = TagAfter(@, w)]
       /\ last' = Call("write_data", w)
       /\ IF w.r = "True"
            THEN BatchAgain(processed(bat, scanned_uid, TRUE), "success", "none", scanned_uid)
          ELSE IF w.r = "False"
            THEN BatchAgain(processed(bat, scanned_uid, FALSE), "write_failed", "none",
                            scanned_uid)
          ELSE IF w.r = "TagLockedException"
            THEN \E action \in {STR_s, STR_q} :
                   IF action = STR_q THEN BatchBreak(bat, "skip_quit")
                   ELSE BatchAgain(processed(bat, scanned_uid, FALSE), "skipped",
                                   "skip_quit", scanned_uid)
          ELSE IF w.r = "WriteError"
            THEN \E action \in {STR_r, STR_s, STR_q} :
                   IF action = STR_q THEN BatchBreak(bat, "retry_skip_quit")
                   ELSE IF action = STR_s
                     THEN BatchAgain(processed(bat, scanned_uid, FALSE), "skipped",
                                     "retry_skip_quit", scanned_uid)
                     ELSE BatchAgain(bat, "retry", "retry_skip_quit", scanned_uid)
          ELSE /\ out' = Show("stopped", "none", scanned_uid)
               /\ conn' = close(conn)
               /\ pc' = "returned"
               /\ UNCHANGED bat

\* a check of line 177 that never finds the UID
never_processed(scanned_uid, processed_uids) == FALSE

\* line 177: if scanned_uid in processed_uids
already_processed(scanned_uid, processed_uids) == scanned_uid \in processed_uids

\* lines 152-225: one turn of the loop, with tag t on the reader
BatchScan ==
  /\ cmd = "batch" /\ pc = "loop"
  /\ \E user_input \in {STR_enter, STR_q, STR_Q}, t \in DOMAIN tags :
       IF lower(user_input) = STR_q
         THEN BatchBreak(bat, "none") /\ UNCHANGED <<tags, last>>
         ELSE \E u \in read_tag_uid(Ctx(tags[t])) :
                LET scanned_uid == upper(strip(u.v))
                    m == matching_record(scanned_uid)
                IN IF u.r = "KeyboardInterrupt"
                     THEN Interrupted /\ UNCHANGED <<bat, tags, last>>
                   ELSE IF u.r = "NFCError"
                     THEN /\ Raised
                          /\ last' = Call("read_tag_uid", u)
                          /\ UNCHANGED <<bat, tags>>
                   ELSE IF u.r = "None" \/ u.v = <<>>
                     THEN /\ BatchAgain(bat, "uid_failed", "none", <<>>)
                          /\ last' = Call("read_tag_uid", u)
                          /\ UNCHANGED tags
                   ELSE IF m = 0
                     THEN BatchAgain(bat, "no_match", "none", scanned_uid)
                          /\ UNCHANGED <<tags, last>>
                   ELSE IF already_processed(scanned_uid, bat.processed_uids)
                     THEN BatchAgain(bat, "duplicate", "none", scanned_uid)
                          /\ UNCHANGED <<tags, last>>
                   ELSE BatchWrite(t, scanned_uid, records[m])
  /\ UNCHANGED <<cmd, args, records, scn>>

(***************************************************************************)
(* reader.py: get_detailed_tag_info                                        *)
(***************************************************************************)
\* lines 228-246: the 'type' entry ("" when the product type is not one of
\* the three listed: 'Unknown NTAG21x (type: ..)' is written "Unknown NTAG21x")
info_type(mfg_data, vd) ==
  IF mfg_data[1] = 4
    THEN IF Len(vd) >= 8
           THEN IF vd[7] = 15 THEN "NTAG213"
                ELSE IF vd[7] = 17 THEN "NTAG215"
                ELSE IF vd[7] = 19 THEN "NTAG216"
                ELSE "Unknown NTAG21x"
           ELSE "NTAG21x (version info unavailable)"
    ELSE "Unknown"

\* lines 254-262: lock_page; 0 for None
info_lock_page(type) ==
  IF type = "NTAG213" THEN 40
  ELSE IF type = "NTAG215" THEN 130
  ELSE IF type = "NTAG216" THEN 226
  ELSE 0

\* Outcomes: r is "ok" with the dict v, or "empty" for {}.  An entry that
\* was not set is <<>>.
get_detailed_tag_info(c) ==
  Bind(read_tag_uid(c),
    LAMBDA u :
      IF u.r # "ok" \/ u.v = <<>> THEN Ret("empty", u.c)
      ELSE Bind(read_page(u.c, 0),
        LAMBDA mfg :
          IF mfg.r # "ok" THEN Ret("empty", mfg.c)
          ELSE Bind(read_page(mfg.c, 3),
            LAMBDA cc :
              IF cc.r # "ok" THEN Ret("empty", cc.c)
              ELSE Bind(version_data(cc.c, 0, <<>>),
                LAMBDA vd :
                  IF vd.r # "ok" THEN Ret("empty", vd.c)
                  ELSE Bind(read_page(vd.c, 2),
                    LAMBDA sl :
                      IF sl.r = "NFCError" THEN Ret("empty", sl.c)
                      ELSE
                        LET type == info_type(mfg.v, vd.v)
                            info == [uid |-> u.v, manufacturer_data |-> mfg.v,
                                     cc_bytes |-> cc.v, version_data |-> vd.v,
                                     type |-> type, static_lock |-> sl.v,
                                     dynamic_lock |-> <<>>]
                        IN IF info_lock_page(type) # 0
                             THEN Bind(read_page(sl.c, info_lock_page(type)),
                                    LAMBDA dl :
                                      IF dl.r = "NFCError" THEN Ret("empty", dl.c)
                                      ELSE {Out("ok", [info EXCEPT !.dynamic_lock = dl.v],
                                                dl.c)})
                             ELSE {Out("ok", info, sl.c)})))))

(***************************************************************************)
(* main.py: handle_nfc_operation                                           *)
(***************************************************************************)
\* the context handed from one call of the handler to the next
Fresh(c) == [c EXCEPT !.log = {}, !.trace = <<>>]

\* how a handler whose try block has no except Exception ends on outcome o
\* of its last call: msg when the call returned
Ended(o, msg) ==
  IF o.r = "KeyboardInterrupt" THEN Interrupted
  ELSE IF o.r = "NFCError" THEN Raised
  ELSE Return(msg)

\* lines 24-45: 'read', with tag t on the reader
NfcRead ==
  /\ cmd = "read" /\ pc = "connected"
  /\ \E user_input \in {STR_enter, STR_q, STR_Q}, t \in DOMAIN tags :
       IF lower(user_input) = STR_q
         THEN Return("quit") /\ UNCHANGED last
       ELSE IF args.uid
         THEN \E u \in read_tag_uid(Ctx(tags[t])) :
                /\ last' = Call("read_tag_uid", u)
                /\ Ended(u, IF u.r = "ok" /\ u.v # <<>> THEN "uid" ELSE "none")
         ELSE \E ty \in get_tag_type(Ctx(tags[t])) :
                IF ty.r \in {"KeyboardInterrupt", "NFCError", "None"}
                  THEN last' = Call("get_tag_type", ty) /\ Ended(ty, "no_type")
                  ELSE \E d \in read_data(Fresh(ty.c)) :
                         /\ last' = Call("read_data", d)
                         /\ Ended(d, IF d.r = "ok" THEN "data" ELSE "none")
  /\ UNCHANGED <<cmd, args, tags, records, bat, scn>>

\* lines 47-62: 'write', with tag t on the reader
NfcWrite ==
  /\ cmd = "write" /\ pc = "connected"
  /\ \E user_input \in {STR_enter, STR_q, STR_Q}, t \in DOMAIN tags :
       IF lower(user_input) = STR_q
         THEN Return("quit") /\ UNCHANGED <<tags, last>>
         ELSE \E ty \in get_tag_type(Ctx(tags[t])) :
                IF ty.r \in {"KeyboardInterrupt", "NFCError", "None"}
                  THEN /\ last' = Call("get_tag_type", ty)
                       /\ Ended(ty, "no_type")
                       /\ UNCHANGED tags
                  ELSE LET nft_data == [version |-> args.version, nft_id |-> args.nft_id,
                                        offer |-> args.offer]
                       IN \E w \in write_data(Fresh(ty.c), nft_data, FALSE) :
                            /\ tags' = [tags EXCEPT ![t] = TagAfter(@, w)]
                            /\ last' = Call("write_data", w)
                            /\ Ended(w, IF w.r = "True" THEN "success" ELSE "write_failed")
  /\ UNCHANGED <<cmd, args, records, bat, scn>>

(***************************************************************************)
(* main.py: handle_info_command                                            *)
(***************************************************************************)
Info ==
  /\ cmd = "info" /\ pc = "connected"
  /\ \E t \in DOMAIN tags :
       \E i \in get_detailed_tag_info(Ctx(tags[t])) :
         /\ last' = Call("get_detailed_tag_info", i)
         /\ Ended(i, IF i.r = "ok" THEN "info" ELSE "no_info")
  /\ UNCHANGED <<cmd, args, tags, records, bat, scn>>

(***************************************************************************)
(* main.py: handle_scan_uids                                               *)
(***************************************************************************)
NoScan == [rows |-> <<>>, file |-> [header |-> FALSE, rows |-> <<>>],
           existing_uids |-> {}, count |-> 0, nft_index |-> 0]

\* lines 239-267: the template and the output file are read; nothing has
\* been connected yet
ScanLoad ==
  /\ cmd = "scan" /\ pc = "start"
  /\ \E loaded \in BOOLEAN :
       LET existing_uids == { scn.file.rows[i].uid : i \in 1..Len(scn.file.rows) }
       IN IF ~loaded
            THEN /\ out' = Show("load_failed", "none", <<>>)
                 /\ pc' = "returned"
                 /\ UNCHANGED scn
          ELSE IF scn.rows # <<>> /\ Cardinality(existing_uids) >= Len(scn.rows)
            THEN /\ out' = Show("already_scanned", "none", <<>>)
                 /\ pc' = "returned"
                 /\ scn' = [scn EXCEPT !.existing_uids = existing_uids]
          ELSE /\ scn' = [scn EXCEPT !.existing_uids = existing_uids]
               /\ pc' = "ready"
               /\ UNCHANGED out
  /\ UNCHANGED <<cmd, args, conn, tags, records, bat, last>>

\* lines 277-284: the output file is opened for appending, the header is
\* written when the file is empty, count and nft_index are set
ScanOpen ==
  /\ cmd = "scan" /\ pc = "connected"
  /\ \E opened \in BOOLEAN :
       IF ~opened
         THEN Raised /\ UNCHANGED scn
         ELSE /\ scn' = [scn EXCEPT !.file.header = TRUE,
                                    !.count = Cardinality(scn.existing_uids),
                                    !.nft_index = Cardinality(scn.existing_uids)]
              /\ pc' = "loop"
              /\ UNCHANGED <<conn, out>>
  /\ UNCHANGED <<cmd, args, tags, records, bat, last>>

\* break, then finally and the lines after the try statement
ScanBreak(msg) ==
  /\ out' = [Show(msg, "none", <<>>) EXCEPT !.summary = ScanComplete(scn)]
  /\ conn' = close(conn)
  /\ pc' = "returned"
  /\ UNCHANGED scn

\* continue, or except Exception inside the loop
ScanAgain(msg, uid) ==
  /\ out' = Show(msg, "none", uid)
  /\ UNCHANGED <<conn, pc>>

\* lines 319-344: the row of the scanned tag is written
ScanRecord(uid) ==
  \E written \in BOOLEAN :
    LET from_rows == scn.rows # <<>>
        nft_data == [uid |-> strip(uid),
                     version |-> strip(IF args.version # <<>> THEN args.version
                                       ELSE DEFAULT_VERSION),
                     nft_id |-> IF from_rows THEN strip(scn.rows[scn.nft_index + 1].nft_id)
                                ELSE <<>>,
                     offer |-> IF from_rows THEN strip(scn.rows[scn.nft_index + 1].offer)
                               ELSE <<>>]
        nft_index == IF from_rows THEN scn.nft_index + 1 ELSE scn.nft_index
    IN IF written
         THEN /\ scn' = [scn EXCEPT !.nft_index = nft_index,
                                    !.file.rows = Append(@, nft_data),
                                    !.existing_uids = @ \cup {uid},
                                    !.count = @ + 1]
              /\ ScanAgain("recorded", uid)
         ELSE /\ scn' = [scn EXCEPT !.nft_index = nft_index]
              /\ ScanAgain("error", uid)

\* lines 291-352: one turn of the loop, with tag t on the reader
ScanTurn ==
  /\ cmd = "scan" /\ pc = "loop"
  /\ IF scn.rows # <<>> /\ scn.nft_index >= Len(scn.rows)
       THEN ScanBreak("all_assigned") /\ UNCHANGED <<tags, last>>
       ELSE \E choice \in {STR_enter, STR_q, STR_Q}, t \in DOMAIN tags :
         IF lower(choice) = STR_q
           THEN ScanBreak("quit") /\ UNCHANGED <<tags, last>>
           ELSE \E u \in read_tag_uid(Ctx(tags[t])) :
             IF u.r # "ok" \/ u.v = <<>>
               THEN /\ last' = Call("read_tag_uid", u)
                    /\ IF u.r = "KeyboardInterrupt" THEN ScanInterrupted(scn)
                       ELSE ScanAgain(IF u.r = "NFCError" THEN "error" ELSE "read_failed",
                                      <<>>)
                    /\ UNCHANGED <<tags, scn>>
               ELSE \E ty \in get_tag_type(Fresh(u.c)) :
                 IF ty.r \in {"KeyboardInterrupt", "NFCError"}
                   THEN /\ last' = Call("get_tag_type", ty)
                        /\ IF ty.r = "KeyboardInterrupt" THEN ScanInterrupted(scn)
                           ELSE ScanAgain("error", u.v)
                        /\ UNCHANGED <<tags, scn>>
                   ELSE \E l \in IF ty.r = "None" THEN Ret("False", ty.c)
                                 ELSE is_locked(Fresh(ty.c), ty.r) :
                     /\ last' = Call(IF ty.r = "None" THEN "get_tag_type" ELSE "is_locked", l)
                     /\ tags' = [tags EXCEPT ![t] = TagAfter(@, l)]
                     /\ IF l.r = "KeyboardInterrupt"
                          THEN ScanInterrupted(scn) /\ UNCHANGED scn
                        ELSE IF l.r = "True"
                          THEN ScanAgain("locked", u.v) /\ UNCHANGED scn
                        ELSE IF u.v \in scn.existing_uids
                          THEN ScanAgain("already", u.v) /\ UNCHANGED scn
                        ELSE ScanRecord(u.v)
  /\ UNCHANGED <<cmd, args, records, bat>>

(***************************************************************************)
(* The command line and what is at hand, per command.                      *)
(***************************************************************************)
Arguments(legacy_offer, allow_any_length, uid, version, nft_id, offer) ==
  [legacy_offer |-> legacy_offer, allow_any_length |-> allow_any_length, uid |-> uid,
   version |-> version, nft_id |-> nft_id, offer |-> offer]

\* the offer_args of 'batch'
BatchArgs ==
  { Arguments(lo, al, FALSE, <<>>, <<>>, <<>>) :
      <<lo, al>> \in BOOLEAN \X BOOLEAN }

ReadArgs == { Arguments(FALSE, FALSE, uid, <<>>, <<>>, <<>>) : uid \in BOOLEAN }

\* the identifier length of the record of 'write'
WriteIdLen == 6

\* 'write': a record in contract, an offer that is not of the strict
\* length, and an identifier of more than 62 characters
WriteArgs ==
  { Arguments(TRUE, FALSE, FALSE, DEFAULT_VERSION, NftId(WriteIdLen), Offer(5, FALSE)),
    Arguments(FALSE, FALSE, FALSE, DEFAULT_VERSION, NftId(WriteIdLen), Offer(5, FALSE)),
    Arguments(TRUE, FALSE, FALSE, DEFAULT_VERSION, NftId(63), Offer(5, FALSE)) }

\* 'scan': --version absent or given
ScanArgs ==
  { Arguments(FALSE, FALSE, FALSE, v, <<>>, <<>>) : v \in {<<>>, <<32, 68, 84, 50, 32>>} }

InfoArgs == { Arguments(FALSE, FALSE, FALSE, <<>>, <<>>, <<>>) }

\* the tag as a write_data on which every frame is answered leaves it
Written(tag, nft_data, lock) ==
  LET o == CHOOSE w \in write_data(Ctx([tag EXCEPT !.env = Steady]), nft_data, lock) : TRUE
  IN TagAfter(tag, o)

\* tag 1 holds the record of REC_A, tag 2 is blank
ReadTags ==
  { <<Written(Tag(UID_A, Image(4, 15, 0, Zero4), FALSE, FrameOutcomes),
              [version |-> REC_A.version, nft_id |-> REC_A.nft_id, offer |-> REC_A.offer],
              FALSE),
      Tag(UID_B, Image(4, 15, 0, Zero4), FALSE, Steady)>> }

\* tag 1 an NTAG213 to which any frame may fail, tag 2 an Ultralight
WriteTags ==
  { <<Tag(UID_A, Image(4, 15, 0, Zero4), FALSE, FrameOutcomes),
      Tag(UID_B, Image(5, 0, 0, Zero4), FALSE, Steady)>> }

\* tag 1 as in the batch, tag 2 with its static lock bits set, tag 3 an
\* NTAG215
ScanTags ==
  { <<Tag(UID_A, Image(4, 15, 0, Zero4), FALSE, FrameOutcomes),
      Tag(UID_B, Image(4, 15, 255, Zero4), FALSE, Steady),
      Tag(UID_C, Image(4, 17, 0, Zero4), FALSE, Steady)>> }

ROW_1 == [nft_id |-> <<32>> \o NftId(5), offer |-> Offer(5, FALSE) \o <<32>>]
ROW_2 == [nft_id |-> NftId(6), offer |-> Offer(5, TRUE)]

\* the template rows, and the output file: absent, or left by a run that
\* recorded tag 1
ScanInputs ==
  { [NoScan EXCEPT !.rows = rows, !.file = file] :
      rows \in {<<>>, <<ROW_1>>, <<ROW_1, ROW_2>>},
      file \in { [header |-> FALSE, rows |-> <<>>],
                 [header |-> TRUE,
                  rows |-> <<[uid |-> toHexString(UID_A), version |-> DEFAULT_VERSION,
                              nft_id |-> NftId(5), offer |-> Offer(5, FALSE)]>>] } }

(***************************************************************************)
(* The specification of the command handlers.                              *)
(***************************************************************************)
Init ==
  /\ cmd \in {"batch", "read", "write", "scan", "info"}
  /\ args \in IF cmd = "batch" THEN BatchArgs
              ELSE IF cmd = "read" THEN ReadArgs
              ELSE IF cmd = "write" THEN WriteArgs
              ELSE IF cmd = "scan" THEN ScanArgs
              ELSE InfoArgs
  /\ pc = "start"
  /\ conn = "none"
  /\ tags \in IF cmd = "batch" THEN BatchTags
              ELSE IF cmd = "write" THEN WriteTags
              ELSE IF cmd = "scan" THEN ScanTags
              ELSE ReadTags
  /\ records \in IF cmd = "batch" THEN BatchInputs ELSE {<<>>}
  /\ bat = NoBat
  /\ scn \in IF cmd = "scan" THEN ScanInputs ELSE {NoScan}
  /\ out = NoOut
  /\ last = NoCall

Next ==
  \/ Connect
  \/ KeyboardInterrupt
  \/ BatchLoad
  \/ BatchAskLock
  \/ BatchConfirmLock
  \/ BatchScan
  \/ NfcRead
  \/ NfcWrite
  \/ Info
  \/ ScanLoad
  \/ ScanOpen
  \/ ScanTurn

Spec == Init /\ [][Next]_vars

(***************************************************************************)
(* The functions of NFCReader and NFDEFHandler applied one at a time to a  *)
(* tag: first, possibly, one call that writes, then one that reads back.   *)
(* tags is the one tag at hand, args holds the record, and last is the     *)
(* call just made: its name, its tag_type argument ("" when it has none),  *)
(* the frame outcomes of its channel, its result, value and marks, the     *)
(* frames it sent when it is a single page command, the trace of its page  *)
(* commands, and prev, the call before it.                                 *)
(***************************************************************************)
NoUnitCall ==
  [op |-> "none", arg |-> "", env |-> {}, r |-> "none", v |-> <<>>, log |-> {},
   frames |-> <<>>, trace |-> <<>>,
   prev |-> [op |-> "none", arg |-> "", env |-> {}, r |-> "none", v |-> <<>>]]

UnitCall(op, arg, env, o) ==
  [op |-> op, arg |-> arg, env |-> env, r |-> o.r, v |-> o.v, log |-> o.c.log,
   frames |-> <<>>, trace |-> o.c.trace,
   prev |-> [op |-> last.op, arg |-> last.arg, env |-> last.env, r |-> last.r,
             v |-> last.v]]

\* the record of args as the dict the functions take
nft_data_of(a) == [version |-> a.version, nft_id |-> a.nft_id, offer |-> a.offer]

\* the channel of a call: every frame answered, or as the tag is held; at
\* most one call of a run is made on a channel that fails
UnitEnvs ==
  IF pc = "unit" \/ last.env = Steady THEN {Steady, tags[1].env} ELSE {Steady}

\* the call op(arg), with outcomes S(env), is made; then comes the stage next
Apply(op, arg, S(_), next) ==
  /\ cmd = "unit"
  /\ \E env \in UnitEnvs :
       \E o \in S(env) :
         /\ tags' = [tags EXCEPT ![1] = TagAfter(@, o)]
         /\ last' = UnitCall(op, arg, env, o)
  /\ pc' = next
  /\ UNCHANGED <<cmd, args, conn, records, bat, scn, out>>

UnitCtx(env) == Ctx([tags[1] EXCEPT !.env = env])

\* the pages of a tag: the largest variant has pages 0..257
Pages == 0..257

\* the context of a call whose commands on the pages of watch are traced
WatchCtx(env, watch) == [UnitCtx(env) EXCEPT !.watch = watch]

UnitClearTag ==
  /\ pc = "unit"
  /\ \E tag_type \in TagTypes :
       Apply("clear_tag", tag_type, LAMBDA env : clear_tag(UnitCtx(env), tag_type), "observe")

UnitFormatTag ==
  /\ pc = "unit"
  /\ Apply("format_tag", "", LAMBDA env : format_tag(WatchCtx(env, {3})), "observe")

UnitWriteNdefMessage ==
  /\ pc = "unit"
  /\ Apply("write_ndef_message", "",
           LAMBDA env : write_ndef_message([WatchCtx(env, Pages) EXCEPT !.stages = TRUE],
                                           nft_data_of(args)),
           "observe")

UnitLockTag ==
  /\ pc = "unit"
  /\ \E tag_type \in TagTypes :
       Apply("lock_tag", tag_type, LAMBDA env : lock_tag(WatchCtx(env, Pages), tag_type),
             "observe")

UnitWriteData ==
  /\ pc = "unit"
  /\ \E lock \in BOOLEAN :
       Apply("write_data", IF lock THEN "lock" ELSE "",
             LAMBDA env : write_data([UnitCtx(env) EXCEPT !.stages = TRUE],
                                     nft_data_of(args), lock),
             "observe")

\* the pages and the bytes of the single page commands
UnitPages == {2, 4}

UnitBytes == <<1, 2, 3, 4>>

UnitWritePage ==
  /\ cmd = "unit" /\ pc = "unit"
  /\ \E page \in UnitPages, env \in UnitEnvs :
       \E run \in TryCmds(env, write_cmds(page, UnitBytes), <<>>) :
         LET o == write_page_of(UnitCtx(env), page, UnitBytes, "data", run)
         IN /\ tags' = [tags EXCEPT ![1] = TagAfter(@, o)]
            /\ last' = [UnitCall("write_page", "", env, o) EXCEPT !.frames = run.frames]
  /\ pc' = "observe"
  /\ UNCHANGED <<cmd, args, conn, records, bat, scn, out>>

UnitReadPage ==
  /\ cmd = "unit" /\ pc \in {"unit", "observe"}
  /\ \E page \in UnitPages, env \in UnitEnvs :
       \E run \in TryCmds(env, read_cmds(page), <<>>) :
         LET o == read_page_of(UnitCtx(env), page, run)
         IN /\ tags' = [tags EXCEPT ![1] = TagAfter(@, o)]
            /\ last' = [UnitCall("read_page", "", env, o) EXCEPT !.frames = run.frames]
  /\ pc' = "observed"
  /\ UNCHANGED <<cmd, args, conn, records, bat, scn, out>>

UnitGetTagType ==
  /\ pc \in {"unit", "observe"}
  /\ Apply("get_tag_type", "", LAMBDA env : get_tag_type(UnitCtx(env)), "observed")

UnitIsLocked ==
  /\ pc \in {"unit", "observe"}
  /\ \E tag_type \in TagTypes :
       Apply("is_locked", tag_type, LAMBDA env : is_locked(WatchCtx(env, Pages), tag_type),
             "observed")

UnitReadNdefMessage ==
  /\ pc \in {"unit", "observe"}
  /\ Apply("read_ndef_message", "",
           LAMBDA env : read_ndef_message(WatchCtx(env, Pages \ (0..3))), "observed")

\* the tags: one of each variant by its product type byte, an Ultralight,
\* NTAG21x tags without a product type byte and with the capability
\* container cc, a tag with a 4-byte UID, a tag with its static lock bits
\* set, a tag with dynamic lock bits set on the lock page of every variant
\* (byte 0, byte 1 and byte 2), two tags whose capability container is
\* one-time programmable (one left by a larger variant, one left by the
\* NTAG21x_2A configuration), and two tags to which any frame may fail
CC_BYTES == { <<225, 16, 127, 0>>, <<225, 16, 18, 0>>, <<225, 16, 63, 0>>,
              <<225, 16, 6, 0>>, <<0, 0, 127, 0>> }

UnitTags ==
  { Tag(UID_A, Image(4, prod, 0, Zero4), FALSE, Steady) : prod \in {15, 17, 19, 42} }
  \cup { Tag(UID_A, Image(4, 0, 0, cc), FALSE, Steady) : cc \in CC_BYTES }
  \cup { Tag(UID_A, Image(5, 0, 0, Zero4), FALSE, Steady),
         Tag(UID_4, Image(4, 15, 0, Zero4), FALSE, Steady),
         Tag(UID_A, Image(4, 15, 255, Zero4), FALSE, Steady),
         Tag(UID_A, WrMem(WrMem(WrMem(Image(4, 15, 0, Zero4), 40, <<1, 0, 0, 0>>),
                                130, <<0, 1, 0, 0>>), 226, <<0, 0, 1, 0>>), FALSE, Steady),
         Tag(UID_A, Image(4, 15, 0, <<225, 16, 63, 0>>), TRUE, Steady),
         Tag(UID_A, Image(4, 15, 0, <<225, 17, 127, 0>>), TRUE, Steady),
         Tag(UID_A, Image(4, 15, 0, Zero4), FALSE, FrameOutcomes),
         Tag(UID_A, Image(5, 0, 0, Zero4), FALSE, FrameOutcomes) }

\* the lengths of the short identifier and of the long offer of the records
ShortIdLen == 6
LongOfferLen == 70

\* the records: full-length fields; a short version and identifier; an
\* offer that ends in a two-byte character; an offer too long for an NTAG213
UnitRecords ==
  { Arguments(FALSE, FALSE, FALSE, DEFAULT_VERSION, NftId(62), Offer(5, FALSE)),
    Arguments(FALSE, FALSE, FALSE, <<68, 84, 49>>, NftId(ShortIdLen), Offer(5, FALSE)),
    Arguments(FALSE, FALSE, FALSE, DEFAULT_VERSION, NftId(62), Offer(5, TRUE)),
    Arguments(FALSE, FALSE, FALSE, DEFAULT_VERSION, NftId(62), Offer(LongOfferLen, FALSE)) }

TagInit ==
  /\ cmd = "unit"
  /\ args \in UnitRecords
  /\ pc = "unit"
  /\ conn = "none"
  /\ tags \in { <<t>> : t \in UnitTags }
  /\ records = <<>>
  /\ bat = NoBat
  /\ scn = NoScan
  /\ out = NoOut
  /\ last = NoUnitCall

TagNext ==
  \/ UnitClearTag
  \/ UnitFormatTag
  \/ UnitWriteNdefMessage
  \/ UnitLockTag
  \/ UnitWriteData
  \/ UnitWritePage
  \/ UnitReadPage
  \/ UnitGetTagType
  \/ UnitIsLocked
  \/ UnitReadNdefMessage

TagSpec == TagInit /\ [][TagNext]_vars

(***************************************************************************)
(* Properties of the command handlers.                                     *)
(***************************************************************************)
\* C1: in the batch loop, a scan of a UID that is already in processed_uids
\* only reports a duplicate and prompts again: write_data is not called
\* (the count of its calls and the last call stay as they were), no
\* counter and no tag changes, and the loop goes on.
C1_DuplicateScanOnlyReports ==
  [][ (cmd = "batch" /\ pc = "loop" /\ out'.scanned # <<>>
         /\ out'.scanned \in bat.processed_uids)
      => (/\ out'.msg = "duplicate"
          /\ out'.prompt = "none"
          /\ last' = last
          /\ bat' = bat
          /\ tags' = tags
          /\ pc' = "loop") ]_vars

\* a processed tag has been scanned again while a record is still open
C1_Witness ==
  /\ cmd = "batch" /\ pc = "loop"
  /\ out.msg = "duplicate"
  /\ out.scanned \in bat.processed_uids
  /\ last.n = 1
  /\ bat.success_count + bat.fail_count = 1

\* C2: in the batch loop, a write_data call that found the tag locked is
\* followed by the (s)kip/(q)uit prompt, never by the retry prompt; skip
\* counts the UID failed and processed, quit leaves the loop with nothing
\* counted.
C2_LockedTagAsksSkipQuit ==
  [][ (cmd = "batch" /\ last'.n = last.n + 1 /\ "locked" \in last'.log)
      => (/\ out'.prompt = "skip_quit"
          /\ out'.msg \in {"skipped", "quit"}
          /\ out'.msg = "skipped" =>
               /\ bat'.fail_count = bat.fail_count + 1
               /\ bat'.processed_uids = bat.processed_uids \cup {out'.scanned}
          /\ out'.msg = "quit" => bat' = bat /\ pc' = "returned") ]_vars

\* C3: in the batch loop, a write_data call that failed on a tag it did not
\* find locked is followed by the (r)etry/(s)kip/(q)uit prompt; retry
\* counts nothing, skip counts the UID failed and processed, quit leaves
\* the loop.
C3_FailedWriteAsksRetrySkipQuit ==
  [][ (cmd = "batch" /\ last'.n = last.n + 1 /\ last'.r = "False"
         /\ "locked" \notin last'.log)
      => (/\ out'.prompt = "retry_skip_quit"
          /\ out'.msg \in {"retry", "skipped", "quit"}
          /\ out'.msg = "retry" => bat' = bat
          /\ out'.msg = "skipped" =>
               /\ bat'.fail_count = bat.fail_count + 1
               /\ bat'.processed_uids = bat.processed_uids \cup {out'.scanned}
          /\ out'.msg = "quit" => bat' = bat /\ pc' = "returned") ]_vars

\* C4: every step that leaves the batch loop logs the summary: the counts
\* of successes and failures and total - success - failed.
C4_LoopExitLogsSummary ==
  [][ (cmd = "batch" /\ pc = "loop" /\ pc' # "loop")
      => out'.summary = Summary(bat') ]_vars

\* C5: a handler that has connected never ends, by return or by exception,
\* with the connection still open.
C5_ClosedOnEveryExit ==
  pc \in {"returned", "raised"} => conn # "open"

\* a tag command raised out of a handler, and the connection is closed
C5_Witness ==
  /\ pc = "raised" /\ last.r = "NFCError" /\ conn = "closed"

\* C8: no write_data call is made for a record that validate_nft_data
\* rejects, by 'write' or by 'batch'.
C8_ValidatedBeforeWrite ==
  last.n > 0 =>
    /\ cmd = "write" =>
         validate_nft_data([version |-> args.version, nft_id |-> args.nft_id,
                            offer |-> args.offer],
                           args.legacy_offer, ~args.allow_any_length)
    /\ cmd = "batch" =>
         \A i \in 1..Len(records) :
           validate_nft_data(records[i], args.legacy_offer, ~args.allow_any_length)

\* C11: in the batch loop, a scan of a UID that, trimmed and upper-cased,
\* equals the trimmed and upper-cased UID of no record only reports that
\* there is no match and prompts again: success_count, fail_count and
\* processed_uids stay as they were, no call is made that writes (the tags
\* and the last call are unchanged), and the loop goes on.
C11_NoMatchOnlyReports ==
  [][ (cmd = "batch" /\ pc = "loop" /\ out'.scanned # <<>>
         /\ \A i \in 1..Len(records) : upper(strip(records[i].uid)) # out'.scanned)
      => (/\ out'.msg = "no_match"
          /\ out'.prompt = "none"
          /\ bat' = bat
          /\ tags' = tags
          /\ last' = last
          /\ pc' = "loop") ]_vars

\* the tag that is in no record has been scanned, with both records open
C11_Witness ==
  /\ cmd = "batch" /\ pc = "loop"
  /\ Len(records) = 2
  /\ out.msg = "no_match" /\ out.scanned = toHexString(UID_C)
  /\ bat.processed_uids = {} /\ last.n = 0

\* C12: with one record (validated, 5-character offer under
\* --legacy-offer), locking declined and nothing processed yet, the scan of
\* the tag of that record, a tag without lock bits that answers every
\* frame, ends in a write_data that returns True: success_count is 1,
\* fail_count 0, the summary gives 0 remaining, and the handler returns
\* without another prompt.
C12_SingleScanSuccess ==
  [][ (/\ cmd = "batch" /\ pc = "loop"
       /\ Len(records) = 1
       /\ args.legacy_offer /\ Len(records[1].offer) = LEGACY_OFFER_LENGTH
       /\ bat.lock_choice = STR_no
       /\ bat.processed_uids = {}
       /\ out'.scanned = upper(strip(records[1].uid))
       /\ \E t \in DOMAIN tags :
            /\ toHexString(tags[t].uid) = out'.scanned
            /\ tags[t].env = Steady
            /\ RdMem(tags[t].mem, 2)[3] = 0 /\ RdMem(tags[t].mem, 2)[4] = 0
            /\ RdMem(tags[t].mem, NDEF_CONFIG.NTAG213.lock_page) = Zero4)
      => (/\ last'.op = "write_data" /\ last'.n = last.n + 1 /\ last'.r = "True"
          /\ out'.msg = "success"
          /\ bat'.success_count = 1 /\ bat'.fail_count = 0
          /\ out'.summary = <<1, 0, 0>>
          /\ pc' = "returned" /\ conn' = "closed") ]_vars

\* the one record has been written to its tag by the first write_data
C12_Witness ==
  /\ cmd = "batch" /\ pc = "returned"
  /\ Len(records) = 1 /\ args.legacy_offer
  /\ bat.lock_choice = STR_no
  /\ out.msg = "success" /\ out.scanned = toHexString(UID_B)
  /\ out.summary = <<1, 0, 0>>
  /\ last.n = 1 /\ last.r = "True"

\* C18: the lock decision of a batch is taken before the loop and stays as
\* it is in the loop, so every write_data of the run gets the same flag;
\* the loop is entered with the flag set only when the operator answered
\* yes and then typed exactly LOCK, and a write_data writes lock bytes
\* only in a run with that confirmation.
C18_LockDecidedOnce ==
  [][ cmd = "batch" =>
        /\ pc = "loop" => bat'.lock_choice = bat.lock_choice
        /\ (pc' = "loop" /\ bat'.lock_choice = STR_yes) =>
             (bat'.choice = STR_yes /\ bat'.confirm = STR_LOCK)
        /\ (last'.n = last.n + 1 /\ "lock" \in last'.log) =>
             (bat.lock_choice = STR_yes /\ bat.choice = STR_yes
                /\ bat.confirm = STR_LOCK) ]_vars

\* two tags have been written in a run with the confirmation, the second
\* one locked as well
C18_Witness ==
  /\ cmd = "batch" /\ bat.confirm = STR_LOCK /\ bat.lock_choice = STR_yes
  /\ bat.success_count = 2
  /\ last.op = "write_data" /\ last.n = 2 /\ last.r = "True"
  /\ "lock" \in last.log

\* C19: in the batch loop, a read of the tag UID that fails, by a status
\* other than 0x90 or by a transport failure, only makes the loop prompt
\* again: the loop goes on and processed_uids, success_count and
\* fail_count are unchanged.
C19_UidFailureReprompts ==
  [][ (cmd = "batch" /\ pc = "loop"
         /\ out'.msg \in {"uid_failed", "raised"}
         /\ last'.op = "read_tag_uid" /\ last'.r \in {"None", "NFCError"})
      => (pc' = "loop" /\ bat' = bat /\ conn' = conn) ]_vars

(***************************************************************************)
(* Properties of the functions.                                            *)
(***************************************************************************)
\* the variant get_tag_type returns for the tag when every frame is answered
variant_of(tag) ==
  (CHOOSE o \in get_tag_type(Ctx([tag EXCEPT !.env = Steady])) : TRUE).r

PageWrites == {"clear", "cc", "data"}

\* C6: a record that NFTData accepts, written by write_ndef_message with
\* every frame answered (it returned True, so the TLV fits the variant), is
\* what read_ndef_message then returns: the same version, identifier and
\* offer.
C6_RoundTrip ==
  (/\ cmd = "unit"
   /\ last.op = "read_ndef_message" /\ last.env = Steady
   /\ last.prev.op = "write_ndef_message" /\ last.prev.env = Steady
   /\ last.prev.r = "True"
   /\ NFTData(args.version, args.nft_id, args.offer).err = "none")
  => (last.r = "ok" /\ last.v = nft_data_of(args))

\* C7: when the TLV of the record is longer than max_size of the variant
\* of the tag, the write (write_data, write_ndef_message) returns False and
\* has issued no page write: no clear, capability container or data write.
C7_CapacityFailsBeforeAnyWrite ==
  (/\ cmd = "unit"
   /\ last.op \in {"write_data", "write_ndef_message"} /\ last.env = Steady
   /\ variant_of(tags[1]) \in TagTypes
   /\ too_large(tlv_data(nft_data_of(args)), NDEF_CONFIG[variant_of(tags[1])]))
  => (last.r = "False" /\ last.log \cap PageWrites = {})

\* C9: on a tag with a 7-byte UID and the NTAG21x manufacturer byte whose
\* product type byte is none of the table, get_tag_type, with every frame
\* answered, returns NTAG21x_2A when the capability container gives 1016
\* bytes, NTAG213 for 144, NTAG215 for 504, and ULTRALIGHT when it gives
\* another size or is no capability container.
C9_FallbackByMemorySize ==
  (/\ cmd = "unit"
   /\ last.op = "get_tag_type" /\ last.env = Steady
   /\ Len(tags[1].uid) = 7
   /\ RdMem(tags[1].mem, 0)[1] = 4
   /\ RdMem(tags[1].mem, 1)[3] \notin {15, 17, 19, 42})
  => LET cc == RdMem(tags[1].mem, 3)
     IN last.r = IF cc[1] = 225 /\ cc[3] * 8 = 1016 THEN "NTAG21x_2A"
                 ELSE IF cc[1] = 225 /\ cc[3] * 8 = 144 THEN "NTAG213"
                 ELSE IF cc[1] = 225 /\ cc[3] * 8 = 504 THEN "NTAG215"
                 ELSE "ULTRALIGHT"

\* a tag without product type byte whose capability container gives 1016
\* bytes has been identified as NTAG21x_2A
C9_Witness ==
  /\ cmd = "unit" /\ last.op = "get_tag_type" /\ last.env = Steady
  /\ RdMem(tags[1].mem, 0)[1] = 4
  /\ RdMem(tags[1].mem, 1)[3] = 0
  /\ RdMem(tags[1].mem, 3) = <<225, 16, 127, 0>>
  /\ last.r = "NTAG21x_2A"

C13_TwoEncodingsAtMost ==
  (cmd = "unit" /\ last.op \in {"read_page", "write_page"})
  => LET f == last.frames
         primary == IF last.op = "read_page" THEN APDU_COMMANDS.READ_PAGE
                    ELSE APDU_COMMANDS.WRITE_PAGE
         alternate == IF last.op = "read_page" THEN APDU_COMMANDS.READ_PAGE_ALT
                      ELSE APDU_COMMANDS.WRITE_PAGE_ALT
     IN /\ Len(f) \in {1, 2}
        /\ SubSeq(f[1].cmd, 1, 3) = primary
        /\ Len(f) = 2 =>
             /\ f[1].o = "sw"
             /\ SubSeq(f[2].cmd, 1, 3) = alternate
             /\ SubSeq(f[2].cmd, 4, Len(f[2].cmd)) = SubSeq(f[1].cmd, 4, Len(f[1].cmd))
        /\ (last.r \in {"ok", "True"}) <=> (\E i \in 1..Len(f) : f[i].o = "ok")
        /\ last.r \in {"None", "False"} =>
             (Len(f) = 2 /\ f[1].o = "sw" /\ f[2].o = "sw")

\* a write_page failed after both encodings were refused
C13_Witness ==
  /\ cmd = "unit" /\ last.op = "write_page" /\ last.r = "False"
  /\ Len(last.frames) = 2
  /\ SubSeq(last.frames[2].cmd, 1, 3) = APDU_COMMANDS.WRITE_PAGE_ALT

\* C14: read_page and write_page raise NFCError exactly when a frame of
\* theirs met a transport exception, and then they do not hand back None
\* or False; frames answered with a status other than 0x90 never make
\* them raise.
C14_TransportFailureRaises ==
  (cmd = "unit" /\ last.op \in {"read_page", "write_page"})
  => LET f == last.frames
     IN /\ (\E i \in 1..Len(f) : f[i].o = "exc") <=> last.r = "NFCError"
        /\ last.r \in {"None", "False"} => \A i \in 1..Len(f) : f[i].o = "sw"
        /\ (\A i \in 1..Len(f) : f[i].o \in {"ok", "sw"}) =>
             last.r \in {"ok", "True", "None", "False"}

\* the alternate encoding of a read met a transport exception after the
\* primary was refused
C14_Witness ==
  /\ cmd = "unit" /\ last.op = "read_page" /\ last.r = "NFCError"
  /\ Len(last.frames) = 2
  /\ last.frames[1].o = "sw" /\ last.frames[2].o = "exc"

\* C15: write_data returns True only when no step of it failed: no write
\* that clears a page of the user memory failed, the capability container
\* and the NDEF message were written, and, when the lock was requested,
\* the lock bytes were written and the lock was verified.
C15_SuccessMeansNoStepFailed ==
  (cmd = "unit" /\ last.op = "write_data" /\ last.r = "True")
  => (/\ "clear_failed" \notin last.log
      /\ "cc" \in last.log
      /\ "written" \in last.log
      /\ last.arg = "lock" => ("lock" \in last.log /\ "lock_failed" \notin last.log))

\* C16: a write_data that found the tag locked returns False and has
\* issued no write that clears a page, writes the capability container,
\* writes NDEF data or writes lock bytes.
C16_LockedTagIsNotWritten ==
  (cmd = "unit" /\ last.op = "write_data" /\ "locked" \in last.log)
  => (/\ last.r = "False"
      /\ last.log \cap {"clear", "cc", "data", "lock"} = {})

\* write_data refused the tag whose static lock bits are set
C16_Witness ==
  /\ cmd = "unit" /\ last.op = "write_data" /\ last.r = "False"
  /\ "locked" \in last.log
  /\ RdMem(tags[1].mem, 2)[3] = 255

\* C17: a write_data asked to lock writes lock bytes only after the NDEF
\* message was written; when lock_tag then fails, write_data returns False
\* and the pages from data_start still hold the TLV of the record.
C17_LockAfterDataAndNoRollback ==
  (cmd = "unit" /\ last.op = "write_data" /\ last.arg = "lock")
  => (/\ "lock" \in last.log => "written" \in last.log
      /\ "lock_failed" \in last.log =>
           /\ last.r = "False"
           /\ "written" \in last.log
           /\ LET tlv == tlv_data(nft_data_of(args))
              IN \A k \in 0..(chunk_count(Len(tlv)) - 1) :
                   RdMem(tags[1].mem, NDEF_CONFIG.NTAG213.data_start + k)
                     = ljust4(Slice(tlv, 4 * k, 4 * k + 4)))

\* the message was written and the lock after it failed
C17_Witness ==
  /\ cmd = "unit" /\ last.op = "write_data" /\ last.arg = "lock"
  /\ last.r = "False"
  /\ {"written", "lock", "lock_failed"} \subseteq last.log

\* C20: for every variant, an is_locked on a tag whose static lock bytes
\* and whose dynamic lock bits of the variant are all zero reads the first
\* data page and writes it back, and returns True exactly when that write
\* fails: with every frame answered it has made the test write and returns
\* False, and it never returns True without having made the test write.
C20_ProbesWhenNoLockBits ==
  (/\ cmd = "unit" /\ last.op = "is_locked"
   /\ RdMem(tags[1].mem, 2)[3] = 0 /\ RdMem(tags[1].mem, 2)[4] = 0
   /\ LET lock_data == RdMem(tags[1].mem, NDEF_CONFIG[last.arg].lock_page)
      IN \/ last.arg = "ULTRALIGHT"
         \/ last.arg = "NTAG213" /\ lock_data[1] = 0
         \/ last.arg \in {"NTAG215", "NTAG21x_2A"} /\ lock_data[1] = 0 /\ lock_data[2] = 0
         \/ last.arg = "NTAG216" /\ lock_data[1] = 0 /\ lock_data[2] = 0
              /\ lock_data[3] = 0)
  => (/\ last.env = Steady => ("probe" \in last.log /\ last.r = "False")
      /\ last.r = "True" => "probe" \in last.log)

\* C21: is_locked never lets an exception of a command out, and when a
\* command of the check (a read of a lock page, the read or the write of
\* the test) raised, it returns False.
C21_IsLockedFailOpen ==
  (cmd = "unit" /\ last.op = "is_locked")
  => (/\ last.r \in {"True", "False", "KeyboardInterrupt"}
      /\ (\E i \in 1..Len(last.trace) : last.trace[i].r = "NFCError") => last.r = "False")

\* the test write met a transport exception and is_locked returned False
C21_Witness ==
  /\ cmd = "unit" /\ last.op = "is_locked" /\ last.r = "False"
  /\ \E i \in 1..Len(last.trace) :
       last.trace[i].op = "write" /\ last.trace[i].r = "NFCError"

\* C26: get_tag_type returns no variant when the UID has not exactly 7
\* bytes; with every frame answered, a tag with a 7-byte UID, manufacturer
\* byte 0x04 and product type byte 0x0F, 0x11, 0x13 or 0x2A is NTAG213,
\* NTAG215, NTAG216 or NTAG21x_2A, whatever its capability container holds.
C26_TypeByteDecides ==
  (cmd = "unit" /\ last.op = "get_tag_type")
  => LET prod == RdMem(tags[1].mem, 1)[3]
     IN /\ Len(tags[1].uid) # 7 => last.r \notin TagTypes
        /\ (last.env = Steady /\ Len(tags[1].uid) # 7) => last.r = "None"
        /\ (last.env = Steady /\ Len(tags[1].uid) = 7 /\ RdMem(tags[1].mem, 0)[1] = 4) =>
             /\ prod = 15 => last.r = "NTAG213"
             /\ prod = 17 => last.r = "NTAG215"
             /\ prod = 19 => last.r = "NTAG216"
             /\ prod = 42 => last.r = "NTAG21x_2A"

\* a tag with product type byte 0x0F whose capability container gives 504
\* bytes has been identified as NTAG213
C26_Witness ==
  /\ cmd = "unit" /\ last.op = "get_tag_type" /\ last.env = Steady
  /\ RdMem(tags[1].mem, 1)[3] = 15
  /\ RdMem(tags[1].mem, 3) = <<225, 16, 63, 0>>
  /\ last.r = "NTAG213"

\* C27: with every frame answered, is_locked returns True when byte 2 or
\* byte 3 of page 2 is not zero, for every variant, and, for the variants
\* other than ULTRALIGHT, when a byte of the dynamic group of the variant
\* on its lock page is not zero (NTAG213 byte 0; NTAG215 and NTAG21x_2A
\* bytes 0-1; NTAG216 bytes 0-2).  For ULTRALIGHT it reads page 2 once and
\* otherwise only the first data page: no dynamic lock page is read, and
\* without static lock bits it returns False.
C27_LockBitsReportLocked ==
  (cmd = "unit" /\ last.op = "is_locked")
  => LET static_lock == RdMem(tags[1].mem, 2)
         lock_data == RdMem(tags[1].mem, NDEF_CONFIG[last.arg].lock_page)
         group == IF last.arg = "NTAG213" THEN {1}
                  ELSE IF last.arg = "NTAG216" THEN {1, 2, 3}
                  ELSE {1, 2}
         reads == { i \in 1..Len(last.trace) : last.trace[i].op = "read" }
     IN /\ (last.env = Steady /\ (static_lock[3] # 0 \/ static_lock[4] # 0)) =>
             last.r = "True"
        /\ (last.env = Steady /\ last.arg # "ULTRALIGHT"
              /\ \E b \in group : lock_data[b] # 0) => last.r = "True"
        /\ last.arg = "ULTRALIGHT" =>
             /\ \A i \in reads : last.trace[i].page \in {2, NDEF_CONFIG.ULTRALIGHT.data_start}
             /\ Cardinality({ i \in reads : last.trace[i].page = 2 }) <= 1
             /\ (last.env = Steady /\ static_lock[3] = 0 /\ static_lock[4] = 0) =>
                  last.r = "False"

\* byte 2 of the lock page of an NTAG216 is set, nothing else, and the tag
\* is reported locked
C27_Witness ==
  /\ cmd = "unit" /\ last.op = "is_locked" /\ last.arg = "NTAG216"
  /\ last.env = Steady /\ last.r = "True"
  /\ RdMem(tags[1].mem, 2)[3] = 0 /\ RdMem(tags[1].mem, 2)[4] = 0
  /\ RdMem(tags[1].mem, 226) = <<0, 0, 1, 0>>

\* C22: format_tag on a tag of a known variant whose static lock bytes are
\* set, with every frame answered, ends with TagLockedException at its
\* caller and writes no page.
C22_LockedFormatRaises ==
  (/\ cmd = "unit" /\ last.op = "format_tag" /\ last.env = Steady
   /\ \E t \in get_tag_type(UnitCtx(Steady)) : t.r \in TagTypes
   /\ (RdMem(tags[1].mem, 2)[3] # 0 \/ RdMem(tags[1].mem, 2)[4] # 0))
  => (/\ last.r = "TagLockedException"
      /\ last.log \cap {"clear", "cc", "data", "lock"} = {})

\* C23: a format_tag in which a write that clears a page failed writes no
\* capability container and does not return True.
C23_ClearFailureAbortsFormat ==
  (cmd = "unit" /\ last.op = "format_tag" /\ "clear_failed" \in last.log)
  => ("cc" \notin last.log /\ last.r # "True")

\* C28: the commands of lock_tag come in stages.  At most 3 writes go to
\* page 2 and a write after a successful one is none of them; the lock page
\* of the variant is written only for variants other than ULTRALIGHT, at
\* most 3 times and only after a write to page 2 succeeded; the commands of
\* the verification (the reads, and the test write to the first data page)
\* come only after a write of every required stage succeeded; and after 3
\* failed writes of a stage lock_tag returns False with no later command.
C28_LockStagesInOrder ==
  (cmd = "unit" /\ last.op = "lock_tag")
  => LET tr == last.trace
         n == Len(tr)
         dyn == last.arg # "ULTRALIGHT"
         lock_page == NDEF_CONFIG[last.arg].lock_page
         static == { i \in 1..n : tr[i].op = "write" /\ tr[i].page = 2 }
         dynamic == { i \in 1..n : dyn /\ tr[i].op = "write" /\ tr[i].page = lock_page }
         verify == (1..n) \ (static \cup dynamic)
         done(stage) == { i \in stage : tr[i].r = "True" }
         failed(stage) == { i \in stage : tr[i].r = "False" }
     IN /\ Cardinality(static) <= 3 /\ Cardinality(dynamic) <= 3
        /\ \A i \in static : tr[i].data = <<0, 0, 255, 255>>
        /\ \A i \in dynamic : tr[i].data = NDEF_CONFIG[last.arg].lock_bytes
        /\ \A i \in done(static) : \A j \in static : j <= i
        /\ \A i \in done(dynamic) : \A j \in dynamic : j <= i
        /\ \A j \in dynamic : \E i \in done(static) : i < j
        /\ \A j \in verify :
             /\ \E i \in done(static) : i < j
             /\ dyn => \E i \in done(dynamic) : i < j
        /\ Cardinality(failed(static)) = 3 =>
             (last.r = "False" /\ dynamic = {} /\ verify = {})
        /\ Cardinality(failed(dynamic)) = 3 => (last.r = "False" /\ verify = {})
        /\ last.r = "True" => verify # {}

\* page 2 was written, then the three writes of the lock page failed and
\* lock_tag returned False
C28_Witness ==
  /\ cmd = "unit" /\ last.op = "lock_tag" /\ last.arg = "NTAG213" /\ last.r = "False"
  /\ Len(last.trace) = 4
  /\ last.trace[1].page = 2 /\ last.trace[1].r = "True"
  /\ \A i \in 2..4 : last.trace[i].op = "write" /\ last.trace[i].page = 40
                        /\ last.trace[i].r = "False"

\* C29: of the commands of format_tag on the capability container page, at
\* most 3 writes of the configured bytes precede the read-back, and after 3
\* failed ones format_tag returns False without a read-back.  When the
\* read-back differs from the configured bytes, format_tag returns True
\* without another write if and only if bytes 0, 1 and 3 match and the size
\* byte read is larger; otherwise exactly one more write follows, of the
\* configured bytes with the size byte read, and format_tag returns True
\* exactly when that write succeeded.
C29_CapabilityContainerWrite ==
  (cmd = "unit" /\ last.op = "format_tag")
  => LET tr == last.trace
         n == Len(tr)
         writes == { i \in 1..n : tr[i].op = "write" }
         first == CHOOSE i \in writes : \A j \in writes : i <= j
         readback == { i \in 1..n : tr[i].op = "read" /\ writes # {} /\ i > first }
         before == { i \in writes : \A j \in readback : i < j }
         after == writes \ before
     IN writes # {} =>
          LET cc == tr[first].data
          IN /\ Cardinality(before) <= 3
             /\ \A i \in before : tr[i].data = cc
             /\ cc \in { NDEF_CONFIG[t].cc_bytes : t \in TagTypes }
             /\ Cardinality({ i \in before : tr[i].r = "False" }) = 3 =>
                  (last.r = "False" /\ readback = {})
             /\ Cardinality(readback) <= 1
             /\ \A rb \in readback :
                  LET got == tr[rb].data
                      larger == /\ got[1] = cc[1] /\ got[2] = cc[2] /\ got[4] = cc[4]
                                /\ got[3] > cc[3]
                  IN /\ \E i \in before : tr[i].r = "True"
                     /\ (tr[rb].r = "ok" /\ got = cc) => (after = {} /\ last.r = "True")
                     /\ (tr[rb].r = "ok" /\ got # cc) =>
                          /\ larger <=> after = {}
                          /\ larger => last.r = "True"
                          /\ ~larger =>
                               /\ after = {n}
                               /\ tr[n].data = <<cc[1], cc[2], got[3], cc[4]>>
                               /\ last.r = "True" <=> tr[n].r = "True"
                               /\ tr[n].r \in {"False", "NFCError"} => last.r = "False"

\* the read-back differed in byte 1, one write with the size byte read
\* followed and format_tag returned True
C29_Witness ==
  /\ cmd = "unit" /\ last.op = "format_tag" /\ last.r = "True"
  /\ \E i \in 1..Len(last.trace) :
       /\ last.trace[i].op = "read" /\ last.trace[i].data = <<225, 17, 127, 0>>
       /\ i + 1 = Len(last.trace)
       /\ last.trace[i + 1].op = "write"
       /\ last.trace[i + 1].data = <<225, 16, 127, 0>>
       /\ last.trace[i + 1].r = "True"

\* the write commands of a trace
Writes(trace) == SelectSeq(trace, LAMBDA e : e.op = "write")

\* C30: the page writes of write_ndef_message go to the pages data_start,
\* data_start + 1, ... in this order; write k carries bytes 4k..4k+3 of the
\* TLV (0x03, the length of the record, the record, 0xFE), the last one
\* filled with zeros; only the last write made may have failed, and then
\* the result is False; a result of True comes after exactly ceil(L/4)
\* successful writes for a TLV of L bytes.
C30_ChunksInOrder ==
  (cmd = "unit" /\ last.op = "write_ndef_message")
  => LET tr == Writes(last.trace)
         n == Len(tr)
         tlv == tlv_data(nft_data_of(args))
         L == Len(tlv)
         byte(j) == IF j <= L THEN tlv[j] ELSE 0
     IN /\ \A i \in 1..n :
             /\ tr[i].op = "write"
             /\ tr[i].page = NDEF_CONFIG.NTAG213.data_start + i - 1
             /\ tr[i].data = <<byte(4 * i - 3), byte(4 * i - 2), byte(4 * i - 1), byte(4 * i)>>
             /\ i < n => tr[i].r = "True"
        /\ n > 0 =>
             /\ tlv[1] = 3 /\ tlv[2] = L - 3 /\ tlv[L] = 254
             /\ 4 * n < L + 4
             /\ tr[n].r = "False" => last.r = "False"
        /\ last.r = "True" =>
             /\ 4 * n >= L /\ 4 * n < L + 4
             /\ \A i \in 1..n : tr[i].r = "True"

\* a TLV whose length is no multiple of 4 was written whole, the last page
\* filled with zeros
C30_Witness ==
  /\ cmd = "unit" /\ last.op = "write_ndef_message" /\ last.r = "True"
  /\ Len(tlv_data(nft_data_of(args))) = 82
  /\ Len(Writes(last.trace)) = 21
  /\ SubSeq(Writes(last.trace)[21].data, 2, 4) = <<254, 0, 0>>

\* a write after the first page failed and nothing followed
C30_StopWitness ==
  /\ cmd = "unit" /\ last.op = "write_ndef_message" /\ last.r = "False"
  /\ Len(Writes(last.trace)) > 1 /\ Len(Writes(last.trace)) < 5
  /\ Writes(last.trace)[Len(Writes(last.trace))].r = "False"

\* C24: validate_offer_length returns True for a record exactly when,
\* without --allow-any-length, its offer has the target length (5 under
\* --legacy-offer, 64 otherwise) or, with --allow-any-length, its offer has
\* at most 64 characters, and raises ValueError otherwise.  The batch
\* handler goes on to the lock question exactly when every record is
\* accepted; otherwise it reports the failed validation and returns, and
\* then no lock question has been answered and no tag has been scanned.
C24_OfferLengthGate ==
  [][ LET strict == ~args.allow_any_length
          accepted(rec) ==
            IF strict
              THEN Len(rec.offer) = IF args.legacy_offer THEN 5 ELSE 64
              ELSE Len(rec.offer) <= 64
      IN /\ (cmd = "batch" /\ pc = "connected" /\ pc' # pc /\ out'.msg # "stopped"
              /\ records # <<>>)
            => /\ \A i \in 1..Len(records) :
                    validate_offer_length(
                        NFTData(records[i].version, records[i].nft_id, records[i].offer),
                        strict, args.legacy_offer)
                      = IF accepted(records[i]) THEN "True" ELSE "ValueError"
               /\ (\A i \in 1..Len(records) : accepted(records[i])) <=> pc' = "ask_lock"
               /\ (\E i \in 1..Len(records) : ~accepted(records[i]))
                    => (pc' = "returned" /\ out'.msg = "validation_failed")
         /\ out'.msg = "validation_failed"
            => (/\ pc' = "returned"
                /\ bat' = NoBat /\ last' = NoCall /\ out'.prompt = "none"
                /\ tags' = tags) ]_vars

\* with --allow-any-length a file with an offer of 65 characters has been
\* refused
C24_Witness ==
  /\ cmd = "batch" /\ pc = "returned" /\ out.msg = "validation_failed"
  /\ args.allow_any_length
  /\ \E i \in 1..Len(records) : Len(records[i].offer) = 65

\* without either option a file with an offer of 64 characters has passed
C24_AcceptWitness ==
  /\ cmd = "batch" /\ pc = "ask_lock"
  /\ ~args.allow_any_length /\ ~args.legacy_offer
  /\ Len(records[1].offer) = 64

\* C25: in a batch run success_count + fail_count is the size of
\* processed_uids and at most total, the number of records; a step adds at
\* most one UID to processed_uids, removes none, and adds to one counter
\* only together with a UID that was not processed; success_count grows,
\* by one, exactly in the step in which write_data returned True for a UID
\* not yet processed.
C25_CountersFollowProcessed ==
  [][ cmd = "batch" =>
        /\ bat'.success_count + bat'.fail_count = Cardinality(bat'.processed_uids)
        /\ Cardinality(bat'.processed_uids) <= bat'.total
        /\ bat'.total \in {0, Len(records)}
        /\ bat.processed_uids \subseteq bat'.processed_uids
        /\ Cardinality(bat'.processed_uids \ bat.processed_uids) <= 1
        /\ bat'.success_count \in {bat.success_count, bat.success_count + 1}
        /\ bat'.fail_count \in {bat.fail_count, bat.fail_count + 1}
        /\ bat'.success_count = bat.success_count + 1
             <=> (/\ last'.op = "write_data" /\ last'.n = last.n + 1 /\ last'.r = "True"
                  /\ out'.scanned \notin bat.processed_uids
                  /\ out'.scanned \in bat'.processed_uids) ]_vars

\* of two records one was written and one failed
C25_Witness ==
  /\ cmd = "batch" /\ bat.total = 2
  /\ bat.success_count = 1 /\ bat.fail_count = 1
  /\ Cardinality(bat.processed_uids) = 2

\* C31 as stated: a read_ndef_message that returns a record has read,
\* after the first data page, ceil((message_length + 2 + 3) / 4) pages.
C31_ReadsCeilPages ==
  (cmd = "unit" /\ last.op = "read_ndef_message" /\ last.r = "ok")
  => LET msg_length == last.trace[1].data[2]
     IN Len(last.trace) - 1 = (msg_length + 2 + 3 + 3) \div 4

\* C31: read_ndef_message reads the first data page and returns None when
\* its first byte is not 0x03, without another read; otherwise it reads
\* again from the first data page on, in increasing order, at most
\* floor((message_length + 2 + 3) / 4) = ceil((message_length + 2) / 4)
\* pages, which hold the two header bytes and the message; it stops at the
\* first read that fails and returns None, and it returns a record only
\* after exactly that many successful reads.
C31_ReadsHeaderAndMessage ==
  (cmd = "unit" /\ last.op = "read_ndef_message")
  => LET tr == last.trace
         n == Len(tr)
         data_start == NDEF_CONFIG.NTAG213.data_start
     IN /\ \A i \in 1..n : tr[i].op = "read"
        /\ last.r = "ok" => n > 0
        /\ n > 0 =>
             /\ tr[1].page = data_start
             /\ tr[1].r \in {"None", "NFCError"} => (n = 1 /\ last.r = "None")
             /\ (tr[1].r = "ok" /\ tr[1].data[1] # 3) => (n = 1 /\ last.r = "None")
             /\ (tr[1].r = "ok" /\ tr[1].data[1] = 3) =>
                  LET msg_length == tr[1].data[2]
                      more == (msg_length + 2 + 3) \div 4
                  IN /\ 4 * more >= msg_length + 2 /\ 4 * more < msg_length + 2 + 4
                     /\ n - 1 <= more
                     /\ \A i \in 2..n :
                          /\ tr[i].page = data_start + i - 2
                          /\ i < n => tr[i].r = "ok"
                          /\ tr[i].r \in {"None", "NFCError"} => last.r = "None"
                     /\ last.r = "ok" =>
                          (n - 1 = more /\ \A i \in 2..n : tr[i].r = "ok")

\* a message of 21 bytes was read back with 6 reads after the first one
C31_Witness ==
  /\ cmd = "unit" /\ last.op = "read_ndef_message" /\ last.r = "ok"
  /\ last.trace[1].data[2] = 21
  /\ Len(last.trace) - 1 = 6

\* the first data page does not start with 0x03: None after one read
C31_NoTlvWitness ==
  /\ cmd = "unit" /\ last.op = "read_ndef_message" /\ last.r = "None"
  /\ Len(last.trace) = 1 /\ last.trace[1].r = "ok" /\ last.trace[1].data[1] # 3

\* C32: a record that read_ndef_message returns has an identifier and an
\* offer that are not empty; and when the text on the tag was written by
\* write_ndef_message, with every frame of both calls answered, the record
\* has the fields that were written.
C32_NoEmptyFields ==
  (cmd = "unit" /\ last.op = "read_ndef_message" /\ last.r = "ok")
  => (/\ last.v.nft_id # <<>> /\ last.v.offer # <<>>
      /\ (/\ last.env = Steady
          /\ last.prev.op = "write_ndef_message" /\ last.prev.env = Steady
          /\ last.prev.r = "True") => last.v = nft_data_of(args))

\* C33: a write_data of the 'batch' or the 'write' handler ends with True
\* or False (or with the KeyboardInterrupt of the operator, which is no
\* failure of a step): no TagLockedException, WriteError or NFCError comes
\* out of it, so the batch loop never asks (s)kip/(q)uit or
\* (r)etry/(s)kip/(q)uit and never counts a tag as skipped.
C33_WriteDataReturnsBoolean ==
  (cmd \in {"batch", "write"} /\ last.op = "write_data")
  => (/\ last.r \in {"True", "False", "KeyboardInterrupt"}
      /\ out.prompt \notin {"skip_quit", "retry_skip_quit"}
      /\ out.msg \notin {"skipped", "retry"})

\* the write_data of the batch loop found the tag locked and returned False
C33_Witness ==
  /\ cmd = "batch" /\ last.op = "write_data" /\ last.r = "False"
  /\ "locked" \in last.log
  /\ out.msg = "write_failed"

\* C34: the stages of one write_data work with one variant: the variant
\* format_tag identified and the variant write_ndef_message identified are
\* the tag_type of write_data.
C34_OneVariantPerWrite ==
  (cmd = "unit" /\ last.op = "write_data")
  => \A t \in TagTypes :
       TYPE_MARK.check[t] \in last.log =>
         \A u \in TagTypes \ {t} :
           /\ TYPE_MARK.format[u] \notin last.log
           /\ TYPE_MARK.write[u] \notin last.log

\* C35: every page write of write_ndef_message goes to a page of the data
\* area of the variant it works with, from data_start to the end of
\* data_area; none goes to the capability container page, to page 2 or to
\* the lock page of the variant.  The longest TLV a variant takes, of
\* max_size bytes and of at most 258 bytes (its length byte holds at most
\* 255), fits the data area.
C35_WritesInsideDataArea ==
  (cmd = "unit" /\ last.op = "write_ndef_message")
  => LET tr == Writes(last.trace)
     IN /\ tr # <<>> => \E t \in TagTypes : TYPE_MARK.write[t] \in last.log
        /\ \A t \in TagTypes :
             TYPE_MARK.write[t] \in last.log =>
               \A i \in 1..Len(tr) :
                 /\ tr[i].page >= NDEF_CONFIG[t].data_start
                 /\ tr[i].page <= NDEF_CONFIG[t].data_area[2]
                 /\ tr[i].page \notin {NDEF_CONFIG[t].cc_page, 2, NDEF_CONFIG[t].lock_page}
        /\ \A t \in TagTypes :
             LET longest == IF NDEF_CONFIG[t].max_size < 258 THEN NDEF_CONFIG[t].max_size
                            ELSE 258
             IN (longest + 3) \div 4
                  <= NDEF_CONFIG[t].data_area[2] - NDEF_CONFIG[t].data_start + 1

\* a TLV of 147 bytes, too long for an NTAG213, was written to the 37
\* pages from page 4 of a tag taken as NTAG215
C35_Witness ==
  /\ cmd = "unit" /\ last.op = "write_ndef_message" /\ last.r = "True"
  /\ TYPE_MARK.write.NTAG215 \in last.log
  /\ Len(tlv_data(nft_data_of(args))) = 147
  /\ Len(Writes(last.trace)) = 37
  /\ Writes(last.trace)[37].page = 40

\* C36: an is_locked leaves every page of the tag as it was: it issues at
\* most one write, to the first data page, directly after a read of that
\* page that returned data, and with the bytes that read returned.
C36_IsLockedKeepsMemory ==
  [][ (cmd = "unit" /\ pc # "observed" /\ pc' = "observed" /\ last'.op = "is_locked")
      => LET tr == last'.trace
             writes == { i \in 1..Len(tr) : tr[i].op = "write" }
         IN /\ \A p \in Pages : RdMem(tags'[1].mem, p) = RdMem(tags[1].mem, p)
            /\ Cardinality(writes) <= 1
            /\ \A i \in writes :
                 /\ tr[i].page = NDEF_CONFIG[last'.arg].data_start
                 /\ i > 1
                 /\ tr[i - 1].op = "read" /\ tr[i - 1].page = tr[i].page
                 /\ tr[i - 1].r = "ok" /\ tr[i].data = tr[i - 1].data ]_vars

\* the first data page held the start of a TLV, the test write of it
\* succeeded and the page holds the same bytes
C36_Witness ==
  /\ cmd = "unit" /\ pc = "observed" /\ last.op = "is_locked" /\ last.r = "False"
  /\ \E i \in 1..Len(last.trace) :
       /\ last.trace[i].op = "write" /\ last.trace[i].r = "True"
       /\ last.trace[i].data[1] = 3
       /\ RdMem(tags[1].mem, last.trace[i].page) = last.trace[i].data

\* C37: while the batch loop goes on, a record is left to resolve: some
\* record has a UID that is not in processed_uids and that is the UID of
\* the first record found for it, so that the operator who presents its
\* tag gets a write with the data of that record and the loop can come to
\* its normal end.
C37_EveryRecordResolvable ==
  (cmd = "batch" /\ pc = "loop")
  => \E i \in 1..Len(records) :
       LET expected_uid == upper(strip(records[i].uid))
       IN /\ expected_uid \notin bat.processed_uids
          /\ matching_record(expected_uid) = i

\* C38: with a template, at the start of every turn of the scan loop
\* nft_index equals count and is at most the number of template rows, so
\* that the next UID recorded gets the template row that follows the last
\* one assigned.
C38_IndexFollowsCount ==
  (cmd = "scan" /\ pc = "loop" /\ scn.rows # <<>>)
  => (/\ scn.nft_index = scn.count
      /\ scn.nft_index <= Len(scn.rows))

====
